---- MODULE Spec2Model ----
(***************************************************************************)
(* NasrdaNavi routing engine: GraphBuilder (graph_builder.py),             *)
(* RoutingService (routing_service.py), NavigationService                  *)
(* (navigation_service.py) and the geo utilities (geo_utils.py).           *)
(*                                                                         *)
(* Numbers.  A point is <<lon, lat>>; one coordinate unit is 1/111320 of a *)
(* degree and every modelled point lies within a few hundred units of      *)
(* (0, 0), so cos(lat) = 1 to ten digits.  Distances in metres are kept in *)
(* centimetres (fixed point, two decimals); bearings in whole degrees.     *)
(***************************************************************************)
EXTENDS Integers, Sequences, FiniteSets, TLC

VARIABLES
    phase,                      \* "start" before create_app, then "serving"
    roads_gdf,                  \* the road features handed to the builders
    footpaths_gdf,              \* the footpath features handed to build_combined
    driving_graph_builder,      \* RoutingService.driving_graph_builder
    walking_graph_builder,      \* RoutingService.walking_graph_builder (None allowed)
    walking_largest_component,  \* RoutingService.walking_largest_component
    request,                    \* the arguments of the last calculate_route call
    response                    \* what that call returned or raised

vars == <<phase, roads_gdf, footpaths_gdf, driving_graph_builder,
          walking_graph_builder, walking_largest_component, request, response>>

None == [none |-> TRUE]

----------------------------------------------------------------------------
(* Bounds of the model *)

MaxRoadFeatures == 2
MaxFootpathFeatures == 2
MaxPathLen == 4
MaxParts == 3

----------------------------------------------------------------------------
(* Numeric helpers *)

Abs(x) == IF x < 0 THEN 0 - x ELSE x

RECURSIVE ISqrtIn(_, _, _)
ISqrtIn(n, lo, hi) ==
    IF lo >= hi THEN lo
    ELSE LET mid == (lo + hi + 1) \div 2
         IN  IF mid * mid <= n THEN ISqrtIn(n, mid, hi) ELSE ISqrtIn(n, lo, mid - 1)

\* floor of the square root of n, 0 <= n < 2^30
ISqrt(n) == ISqrtIn(n, 0, 32767)

RECURSIVE SeqOfSet(_)
SeqOfSet(S) ==
    IF S = {} THEN <<>>
    ELSE LET m == CHOOSE x \in S : \A y \in S :
                      x[1] < y[1] \/ (x[1] = y[1] /\ x[2] <= y[2])
         IN  <<m>> \o SeqOfSet(S \ {m})

Range(s) == {s[i] : i \in DOMAIN s}

\* statements run in order: the value of `done` is computed before `rest`
InOrder(done, rest) == IF done = done THEN rest ELSE rest

----------------------------------------------------------------------------
(* DistanceModel: graph_builder.py haversine_distance *)

\* R * pi / 180 with R = 6371000: metres per degree of arc on the sphere
HaversineMetersPerDeg == 111195

\* metres per degree of longitude at the equator used for the radius queries
EquatorMetersPerDegLon == 111320

\* squared distance of two points in coordinate units (degree space)
DegDistSq(p, q) == (q[1] - p[1]) * (q[1] - p[1]) + (q[2] - p[2]) * (q[2] - p[2])

\* a distance that keeps the sign of the coordinate differences
haversine_signed(lon1, lat1, lon2, lat2) ==
    ((lon2 - lon1 + lat2 - lat1) * HaversineMetersPerDeg) \div EquatorMetersPerDegLon

\* great-circle distance in centimetres.  For the separations modelled
\* (under 400 m, at latitude 0) the haversine formula is R * the angle
\* sqrt(dlat^2 + dlon^2); the angle is taken in 1/100 coordinate units.
haversine_distance(lon1, lat1, lon2, lat2) ==
    (ISqrt(10000 * DegDistSq(<<lon1, lat1>>, <<lon2, lat2>>)) * HaversineMetersPerDeg)
        \div EquatorMetersPerDegLon

----------------------------------------------------------------------------
(* nx.Graph: nodes in insertion order, undirected edges keyed by {u, v} *)

EmptyGraph == [nodes |-> <<>>, edges |-> <<>>]

EdgeKey(u, v) == {u, v}

has_edge(graph, u, v) == EdgeKey(u, v) \in DOMAIN graph.edges

has_node(graph, u) == u \in Range(graph.nodes)

\* a missing edge read as an unnamed edge of weight 0
get_edge_data_or_default(graph, u, v) ==
    IF EdgeKey(u, v) \in DOMAIN graph.edges THEN graph.edges[EdgeKey(u, v)]
    ELSE [weight |-> 0, road_name |-> "Unnamed Road", path_type |-> "road"]

\* Graph.get_edge_data(u, v): the attribute record, or None
get_edge_data(graph, u, v) ==
    IF has_edge(graph, u, v) THEN graph.edges[EdgeKey(u, v)] ELSE None

AddNode(nodes, u) == IF u \in Range(nodes) THEN nodes ELSE Append(nodes, u)

\* Graph.add_edge(u, v, **attr): adds missing end nodes; an edge that exists
\* has its attributes updated with the new ones
add_edge(graph, u, v, attr) ==
    [nodes |-> AddNode(AddNode(graph.nodes, u), v),
     edges |-> (EdgeKey(u, v) :> attr) @@ graph.edges]

Neighbors(graph, u) ==
    {v \in Range(graph.nodes) : v # u /\ has_edge(graph, u, v)}

----------------------------------------------------------------------------
(* Input features (rows of a GeoDataFrame).  A row has a geometry and the  *)
(* properties present in the file; geometry is a LineString (coords), a    *)
(* MultiLineString (geoms, each a coords sequence) or missing.             *)

LineString(coords) == [type |-> "LineString", coords |-> coords]
MultiLineString(geoms) == [type |-> "MultiLineString", geoms |-> geoms]
Row(geometry, props) == [geometry |-> geometry, props |-> props]

\* row.get(key, default)
RowGet(row, key, default) ==
    IF key \in DOMAIN row.props THEN row.props[key] ELSE default

\* str.strip() on the names that occur in the input catalogue
Strip(s) ==
    CASE s = " Garden Walk " -> "Garden Walk"
      [] s = "  " -> ""
      [] OTHER -> s

\* the points of the input catalogue
PA == <<0, 0>>
PB == <<40, 0>>
PC == <<80, 0>>
PD == <<40, 40>>
PE == <<80, 20>>
PG == <<80, 46>>
PU == <<1, 30>>
PV == <<1, 55>>
PW == <<100, 20>>
PZ == <<100, 37>>
PX == <<128, -14>>
PY == <<153, -14>>
PK == <<40, 68>>
PT == <<40, 76>>

RoadCatalogue ==
    << Row(LineString(<<PA, PB, PC>>), [name |-> "Main Road"]),
       Row(LineString(<<PB, PD>>), [name |-> "North Road"]),
       Row(MultiLineString(<< <<PE, PG>> >>), <<>>) >>

FootpathCatalogue ==
    << Row(LineString(<<PU, PV>>), [WNAME |-> " Garden Walk "]),
       Row(LineString(<<PW, PZ>>), [Name |-> "  "]),
       Row(LineString(<<PX, PY>>), <<>>),
       Row(LineString(<<PD, PK, PT>>), [name |-> "Link Path"]) >>

\* sequences of at most max distinct rows of a catalogue, at least min rows
RECURSIVE IndexSeqs(_, _)
IndexSeqs(n, len) ==
    IF len = 0 THEN {<<>>}
    ELSE {Append(s, i) : s \in IndexSeqs(n, len - 1), i \in 1..n}

Injective(s) == \A i, j \in DOMAIN s : i # j => s[i] # s[j]

Frames(catalogue, min, max) ==
    {[i \in DOMAIN s |-> catalogue[s[i]]] :
        s \in {t \in UNION {IndexSeqs(Len(catalogue), l) : l \in min..max} : Injective(t)}}

RoadFrames == Frames(RoadCatalogue, 1, MaxRoadFeatures)
FootpathFrames == Frames(FootpathCatalogue, 0, MaxFootpathFeatures)

\* the coordinates queries are made with
QueryCoords == {<<0, 0>>, <<3, 32>>, <<79, 49>>, <<126, -11>>, <<101, 22>>}

Modes == {"driving", "walking", "cycling"}

----------------------------------------------------------------------------
(* GraphBuilder *)

\* GraphBuilder.__init__
NewGraphBuilder == [graph |-> EmptyGraph, nodes |-> <<>>, tree |-> None]

\* an exception leaving a call
Raise(exception) == [raised |-> exception]

IsRaised(x) == "raised" \in DOMAIN x /\ x.raised # "no"

\* cKDTree(points): the index keeps the points it was built over; an empty
\* list is an array of one dimension, which the constructor refuses
cKDTree(points) ==
    IF points = <<>> THEN Raise("ValueError") ELSE [data |-> points]

\* GraphBuilder._meters_per_degree_lon: 111320 * cos(average latitude); the
\* average latitude of modelled nodes is below 0.002 degrees, cosine 1
_meters_per_degree_lon(nodes) ==
    IF nodes = <<>> THEN EquatorMetersPerDegLon ELSE EquatorMetersPerDegLon

\* GraphBuilder._line_geometries: the coordinate lists of the parts
_line_geometries(geometry) ==
    IF geometry = None THEN <<>>
    ELSE IF geometry.type = "LineString" THEN <<geometry.coords>>
    ELSE IF geometry.type = "MultiLineString" THEN geometry.geoms
    ELSE <<>>

\* the inner loop over the segments of one line: add_edge and nodes.extend.
\* acc carries graph, nodes and collected (the layer list of build_combined)
RECURSIVE AddSegments(_, _, _, _, _)
AddSegments(acc, coords, i, road_name, path_type) ==
    IF i > Len(coords) - 1 THEN acc
    ELSE LET p1 == coords[i]
             p2 == coords[i + 1]
             length_m == haversine_distance(p1[1], p1[2], p2[1], p2[2])
             next == [graph |-> add_edge(acc.graph, p1, p2,
                                   [weight |-> length_m, road_name |-> road_name,
                                    path_type |-> path_type]),
                      nodes |-> acc.nodes \o <<p1, p2>>,
                      collected |-> acc.collected \o <<p1, p2>>]
         IN  InOrder(next, AddSegments(next, coords, i + 1, road_name, path_type))

RECURSIVE AddLines(_, _, _, _, _)
AddLines(acc, lines, j, road_name, path_type) ==
    IF j > Len(lines) THEN acc
    ELSE LET next == AddSegments(acc, lines[j], 1, road_name, path_type)
         IN  InOrder(next, AddLines(next, lines, j + 1, road_name, path_type))

\* road_name = row.get("name", "Unnamed Road")
RoadName(row) == RowGet(row, "name", "Unnamed Road")

\* path_name from WNAME, Name, name, stripped; "Footpath" when blank
FootpathName(row) ==
    LET path_name == RowGet(row, "WNAME", RowGet(row, "Name", RowGet(row, "name", "Footpath")))
    IN  IF path_name # "" /\ Strip(path_name) # "" THEN Strip(path_name) ELSE "Footpath"

\* the loop over the rows of the road layer
RECURSIVE AddRoads(_, _, _)
AddRoads(acc, gdf, r) ==
    IF r > Len(gdf) THEN acc
    ELSE LET next == IF gdf[r].geometry = None THEN acc
                     ELSE AddLines(acc, _line_geometries(gdf[r].geometry), 1,
                                   RoadName(gdf[r]), "road")
         IN  InOrder(next, AddRoads(next, gdf, r + 1))

\* the loop over the rows of the footpath layer
RECURSIVE AddFootpaths(_, _, _)
AddFootpaths(acc, gdf, r) ==
    IF r > Len(gdf) THEN acc
    ELSE LET next == IF gdf[r].geometry = None THEN acc
                     ELSE AddLines(acc, _line_geometries(gdf[r].geometry), 1,
                                   FootpathName(gdf[r]), "footpath")
         IN  InOrder(next, AddFootpaths(next, gdf, r + 1))

\* the tree built over the unique nodes while self.nodes keeps the raw list
FinishBuildKeepingNodes(graph, nodes) ==
    IF nodes = <<>> THEN cKDTree(<<>>)
    ELSE [graph |-> graph, nodes |-> nodes, tree |-> cKDTree(SeqOfSet(Range(nodes)))]

\* unique_nodes = list(set(self.nodes)); tree = cKDTree(unique_nodes)
\* the exception of the constructor leaves the build
FinishBuild(graph, nodes) ==
    LET unique_nodes == SeqOfSet(Range(nodes))
        tree == cKDTree(unique_nodes)
    IN  IF IsRaised(tree) THEN tree
        ELSE [graph |-> graph, nodes |-> unique_nodes, tree |-> tree]

\* GraphBuilder.build_from_roads
build_from_roads(self, gdf) ==
    LET acc == AddRoads([graph |-> self.graph, nodes |-> self.nodes, collected |-> <<>>],
                        gdf, 1)
    IN  FinishBuild(acc.graph, acc.nodes)

\* the footpath build indexing only the vertices of its own call
build_from_footpaths_fresh(self, gdf) ==
    LET acc == AddFootpaths([graph |-> self.graph, nodes |-> <<>>, collected |-> <<>>],
                            gdf, 1)
    IN  FinishBuild(acc.graph, acc.nodes)

\* GraphBuilder.build_from_footpaths
build_from_footpaths(self, gdf) ==
    LET acc == AddFootpaths([graph |-> self.graph, nodes |-> self.nodes, collected |-> <<>>],
                            gdf, 1)
    IN  FinishBuild(acc.graph, acc.nodes)

\* the defaults of build_combined, in metres
connection_threshold == 30
footpath_connection_threshold == 40
road_connection_threshold == 25

\* threshold / meters_per_deg_lon: the query radius in degree space, here in
\* hundredths of a coordinate unit
ThresholdDeg(threshold_m, meters_per_deg_lon) ==
    (threshold_m * 100 * EquatorMetersPerDegLon) \div meters_per_deg_lon

\* cKDTree.query_ball_point(x, r): indices of the points within r of x,
\* Euclidean in degree space
query_ball_point(tree, x, r) ==
    {idx \in DOMAIN tree.data : ISqrt(10000 * DegDistSq(tree.data[idx], x)) <= r}

\* the distance test alone, an existing edge not looked at
ShouldConnectAnyPair(graph, node, other_node, dist_m, threshold_m) ==
    dist_m <= threshold_m * 100

\* the test guarding each add_edge of the bridging passes
ShouldConnect(graph, node, other_node, dist_m, threshold_m) ==
    dist_m <= threshold_m * 100 /\ ~has_edge(graph, node, other_node)

\* the body of the inner loops: one candidate pair of a bridging pass
ConnectPair(graph, node, other_node, threshold_m) ==
    LET dist_m == haversine_distance(node[1], node[2], other_node[1], other_node[2])
    IN  IF ShouldConnect(graph, node, other_node, dist_m, threshold_m)
        THEN add_edge(graph, node, other_node,
                 [weight |-> dist_m, road_name |-> "Connection", path_type |-> "connection"])
        ELSE graph

\* for idx in nearby_indices (skipping idx = i in the passes within one layer)
RECURSIVE ConnectNearby(_, _, _, _, _, _, _)
ConnectNearby(graph, node, i, targets, nearby_indices, threshold_m, skip_self) ==
    IF nearby_indices = {} THEN graph
    ELSE LET idx == CHOOSE k \in nearby_indices : \A m \in nearby_indices : k <= m
             rest == nearby_indices \ {idx}
         IN  IF skip_self /\ idx = i
             THEN ConnectNearby(graph, node, i, targets, rest, threshold_m, skip_self)
             ELSE LET next == ConnectPair(graph, node, targets[idx], threshold_m)
                  IN  InOrder(next, ConnectNearby(next, node, i, targets, rest,
                                                  threshold_m, skip_self))

\* for i, node in enumerate(sources): radius query on the tree over targets
RECURSIVE BridgePass(_, _, _, _, _, _, _)
BridgePass(graph, sources, i, targets, threshold_m, meters_per_deg_lon, skip_self) ==
    IF i > Len(sources) THEN graph
    ELSE LET nearby_indices ==
                 query_ball_point(cKDTree(targets), sources[i],
                                  ThresholdDeg(threshold_m, meters_per_deg_lon))
             next == ConnectNearby(graph, sources[i], i, targets, nearby_indices,
                                   threshold_m, skip_self)
         IN  InOrder(next, BridgePass(next, sources, i + 1, targets, threshold_m,
                                      meters_per_deg_lon, skip_self))

\* build_combined up to the bridging: both layers' own edges
NativeLayers(self, roads, footpaths) ==
    LET r == AddRoads([graph |-> self.graph, nodes |-> self.nodes, collected |-> <<>>],
                      roads, 1)
        f == AddFootpaths([graph |-> r.graph, nodes |-> r.nodes, collected |-> <<>>],
                          footpaths, 1)
    IN  [graph |-> f.graph, nodes |-> f.nodes,
         road_nodes |-> r.collected, footpath_nodes |-> f.collected]

\* the three bridging passes of build_combined
Bridging(graph, road_nodes, footpath_nodes) ==
    LET unique_road_nodes == SeqOfSet(Range(road_nodes))
        unique_footpath_nodes == SeqOfSet(Range(footpath_nodes))
        meters_per_deg_lon == _meters_per_degree_lon(road_nodes \o footpath_nodes)
        g1 == IF unique_road_nodes # <<>> /\ unique_footpath_nodes # <<>>
              THEN BridgePass(graph, unique_footpath_nodes, 1, unique_road_nodes,
                              connection_threshold, meters_per_deg_lon, FALSE)
              ELSE graph
        g2 == IF Len(unique_footpath_nodes) > 1
              THEN BridgePass(g1, unique_footpath_nodes, 1, unique_footpath_nodes,
                              footpath_connection_threshold, meters_per_deg_lon, TRUE)
              ELSE g1
        g3 == IF Len(unique_road_nodes) > 1
              THEN BridgePass(g2, unique_road_nodes, 1, unique_road_nodes,
                              road_connection_threshold, meters_per_deg_lon, TRUE)
              ELSE g2
    IN  g3

\* GraphBuilder.build_combined
build_combined(self, roads, footpaths) ==
    LET native == NativeLayers(self, roads, footpaths)
    IN  FinishBuild(Bridging(native.graph, native.road_nodes, native.footpath_nodes),
                    native.nodes)

\* cKDTree.query(x): index of the point nearest to x
query(tree, x) ==
    CHOOSE idx \in DOMAIN tree.data :
        \A k \in DOMAIN tree.data :
            DegDistSq(tree.data[idx], x) < DegDistSq(tree.data[k], x)
            \/ (DegDistSq(tree.data[idx], x) = DegDistSq(tree.data[k], x) /\ idx <= k)

\* the coordinate handed back unsnapped
snap_to_graph_unsnapped(self, lon, lat) == <<lon, lat>>

\* GraphBuilder.snap_to_graph
snap_to_graph(self, lon, lat) == self.nodes[query(self.tree, <<lon, lat>>)]

----------------------------------------------------------------------------
(* geo_utils.py *)

\* 10000 * sin of 0..90 degrees (entry d + 1 is the sine of d degrees)
SinTable ==
    <<
       0, 175, 349, 523, 698, 872, 1045, 1219, 1392, 1564,
       1736, 1908, 2079, 2250, 2419, 2588, 2756, 2924, 3090, 3256,
       3420, 3584, 3746, 3907, 4067, 4226, 4384, 4540, 4695, 4848,
       5000, 5150, 5299, 5446, 5592, 5736, 5878, 6018, 6157, 6293,
       6428, 6561, 6691, 6820, 6947, 7071, 7193, 7314, 7431, 7547,
       7660, 7771, 7880, 7986, 8090, 8192, 8290, 8387, 8480, 8572,
       8660, 8746, 8829, 8910, 8988, 9063, 9135, 9205, 9272, 9336,
       9397, 9455, 9511, 9563, 9613, 9659, 9703, 9744, 9781, 9816,
       9848, 9877, 9903, 9925, 9945, 9962, 9976, 9986, 9994, 9998,
       10000 >>

Sin10000(d) == SinTable[d + 1]
Cos10000(d) == SinTable[91 - d]

\* degrees(atan2(b, a)) for a >= b >= 0, a > 0, to the nearest degree (0..45)
OctantAngle(a, b) ==
    CHOOSE d \in 0..45 :
        \A e \in 0..45 :
            LET errd == Abs(a * Sin10000(d) - b * Cos10000(d))
                erre == Abs(a * Sin10000(e) - b * Cos10000(e))
            IN  errd < erre \/ (errd = erre /\ d <= e)

\* math.degrees(math.atan2(y, x)) to the nearest degree, in -180..180
Atan2Deg(y, x) ==
    IF x = 0 /\ y = 0 THEN 0
    ELSE LET ax == Abs(x)
             ay == Abs(y)
             q  == IF ay > ax THEN 90 - OctantAngle(ay, ax) ELSE OctantAngle(ax, ay)
         IN  IF x >= 0 /\ y >= 0 THEN q
             ELSE IF x < 0 /\ y >= 0 THEN 180 - q
             ELSE IF x < 0 THEN q - 180
             ELSE 0 - q

\* calculate_bearing(p1, p2), points are (lon, lat)
calculate_bearing(p1, p2) == Atan2Deg(p2[2] - p1[2], p2[1] - p1[1])

\* turn_direction(angle_diff)
turn_direction(angle_diff) ==
    IF Abs(angle_diff) < 20 THEN "Continue straight"
    ELSE IF angle_diff > 20 THEN "Turn left"
    ELSE "Turn right"

\* str.lower() on the labels turn_direction returns
Lower(s) ==
    CASE s = "Turn left" -> "turn left"
      [] s = "Turn right" -> "turn right"
      [] s = "Continue straight" -> "continue straight"
      [] OTHER -> s

\* a distance rounded to the nearest metre
IntMetersRounded(cm) == (cm + 50) \div 100

\* int(x) for a non-negative distance kept in centimetres: whole metres
IntMeters(cm) == cm \div 100

----------------------------------------------------------------------------
(* NavigationService *)

TurnInstruction(current_road, segment_distance, turn, next_road, location) ==
    [kind |-> "turn", road |-> current_road, meters |-> IntMeters(segment_distance),
     turn |-> Lower(turn), next_road |-> next_road, location |-> location]

ArriveInstruction(current_road, segment_distance, location) ==
    [kind |-> "arrive", road |-> current_road, meters |-> IntMeters(segment_distance),
     location |-> location]

\* the bearing difference left in 0..359, not brought back to -180..179
BearingDiffUnsigned(prev_bearing, next_bearing) ==
    (next_bearing - prev_bearing + 180) % 360

\* the signed bearing difference handed to turn_direction
BearingDiff(prev_bearing, next_bearing) ==
    ((next_bearing - prev_bearing + 180) % 360) - 180

\* the for loop of generate_turn_instructions, from iteration i on (i counts
\* from 1).  st: instructions, total_distance, segment_distance, current_road
RECURSIVE InstructionLoop(_, _, _, _)
InstructionLoop(graph, path, i, st) ==
    IF i > Len(path) - 1
    THEN [raised |-> "no",
          instructions |-> Append(st.instructions,
              ArriveInstruction(st.current_road, st.segment_distance, path[Len(path)])),
          total_distance |-> st.total_distance]
    ELSE LET edge_data == get_edge_data(graph, path[i], path[i + 1])
         IN  IF edge_data = None THEN [raised |-> "ValueError"]
             ELSE
             LET dist == edge_data.weight
                 segment_distance == st.segment_distance + dist
                 total_distance == st.total_distance + dist
                 moved == [st EXCEPT !.segment_distance = segment_distance,
                                     !.total_distance = total_distance]
             IN  IF i < Len(path) - 1
                 THEN LET next_edge == get_edge_data(graph, path[i + 1], path[i + 2])
                      IN  IF next_edge = None
                          THEN InstructionLoop(graph, path, i + 1, moved)
                          ELSE
                          LET prev_bearing == calculate_bearing(path[i], path[i + 1])
                              next_bearing == calculate_bearing(path[i + 1], path[i + 2])
                              diff == BearingDiff(prev_bearing, next_bearing)
                              turn == turn_direction(diff)
                              next_road == next_edge.road_name
                          IN  IF turn # "Continue straight"
                              THEN InstructionLoop(graph, path, i + 1,
                                       [instructions |-> Append(st.instructions,
                                            TurnInstruction(st.current_road, segment_distance,
                                                            turn, next_road, path[i + 1])),
                                        total_distance |-> total_distance,
                                        segment_distance |-> 0,
                                        current_road |-> next_road])
                              ELSE IF next_road # st.current_road
                              THEN InstructionLoop(graph, path, i + 1,
                                       [moved EXCEPT !.current_road = next_road,
                                                     !.segment_distance = 0])
                              ELSE InstructionLoop(graph, path, i + 1, moved)
                 ELSE InstructionLoop(graph, path, i + 1, moved)

\* NavigationService.generate_turn_instructions on the service's graph
generate_turn_instructions(graph, path) ==
    IF Len(path) < 2 THEN [raised |-> "no", instructions |-> <<>>, total_distance |-> 0]
    ELSE LET edge_data == get_edge_data(graph, path[1], path[2])
         IN  IF edge_data = None THEN [raised |-> "ValueError"]
             ELSE InstructionLoop(graph, path, 1,
                      [instructions |-> <<>>, total_distance |-> 0,
                       segment_distance |-> 0, current_road |-> edge_data.road_name])

----------------------------------------------------------------------------
(* networkx: connectivity and weighted shortest paths *)

IndexOf(seq, x) == CHOOSE i \in DOMAIN seq : seq[i] = x

RECURSIVE Reach(_, _, _)
Reach(graph, frontier, seen) ==
    IF frontier = {} THEN seen
    ELSE LET next == UNION {Neighbors(graph, u) : u \in frontier} \ seen
         IN  Reach(graph, next, seen \cup next)

\* the connected component of u
node_connected_component(graph, u) == Reach(graph, {u}, {u})

\* nx.connected_components: one component per not yet seen node, in node order
RECURSIVE ComponentsFrom(_, _, _)
ComponentsFrom(graph, i, seen) ==
    IF i > Len(graph.nodes) THEN <<>>
    ELSE IF graph.nodes[i] \in seen THEN ComponentsFrom(graph, i + 1, seen)
    ELSE LET c == node_connected_component(graph, graph.nodes[i])
         IN  <<c>> \o ComponentsFrom(graph, i + 1, seen \cup c)

connected_components(graph) == ComponentsFrom(graph, 1, {})

\* nx.is_connected (the graph has at least one node)
is_connected(graph) == Len(connected_components(graph)) = 1

\* max(components, key=len): the first of the largest ones
MaxByLen(components) ==
    components[CHOOSE i \in DOMAIN components :
        \A j \in DOMAIN components :
            Cardinality(components[i]) > Cardinality(components[j])
            \/ (Cardinality(components[i]) = Cardinality(components[j]) /\ i <= j)]

RECURSIVE PathTo(_, _, _)
PathTo(pred, source, v) ==
    IF v = source THEN <<source>> ELSE Append(PathTo(pred, source, pred[v]), v)

\* every edge counted as one hop (the search called without weight="weight")
EdgeWeightHops(graph, u, v) == 1

\* weight="weight": the edge attribute the search minimises
EdgeWeight(graph, u, v) == graph.edges[EdgeKey(u, v)].weight

\* Dijkstra's main loop.  dist[n] = -1: not reached yet; settled: finalised
RECURSIVE DijkstraLoop(_, _, _, _, _, _)
DijkstraLoop(graph, source, target, dist, pred, settled) ==
    LET fringe == {n \in DOMAIN dist : n \notin settled /\ dist[n] >= 0}
    IN  IF fringe = {} THEN [raised |-> "NetworkXNoPath"]
        ELSE
        LET u == CHOOSE n \in fringe : \A m \in fringe :
                     dist[n] < dist[m]
                     \/ (dist[n] = dist[m] /\ IndexOf(graph.nodes, n) <= IndexOf(graph.nodes, m))
        IN  IF u = target THEN [raised |-> "no", path |-> PathTo(pred, source, target)]
            ELSE
            LET better(v) == /\ v \in Neighbors(graph, u)
                             /\ v \notin settled
                             /\ \/ dist[v] < 0
                                \/ dist[u] + EdgeWeight(graph, u, v) < dist[v]
                newdist == [v \in DOMAIN dist |->
                               IF better(v) THEN dist[u] + EdgeWeight(graph, u, v)
                               ELSE dist[v]]
                newpred == [v \in DOMAIN pred |-> IF better(v) THEN u ELSE pred[v]]
            IN  DijkstraLoop(graph, source, target, newdist, newpred, settled \cup {u})

\* nx.shortest_path(graph, source=, target=, weight="weight")
shortest_path(graph, source, target) ==
    IF ~has_node(graph, source) \/ ~has_node(graph, target)
    THEN [raised |-> "NodeNotFound"]
    ELSE DijkstraLoop(graph, source, target,
             [n \in Range(graph.nodes) |-> IF n = source THEN 0 ELSE -1],
             [n \in Range(graph.nodes) |-> n], {})

----------------------------------------------------------------------------
(* RoutingService *)

\* a set held in an attribute that may also be None
Some(x) == [some |-> x]

\* truth value of an attribute holding a set or None
Truthy(c) == c # None /\ c.some # {}

\* RoutingService.__init__: the attributes of the service
RoutingServiceInit(driving_builder, walking_builder) ==
    [driving_graph_builder |-> driving_builder,
     walking_graph_builder |-> walking_builder,
     walking_largest_component |->
         IF walking_builder = None THEN None
         ELSE IF ~is_connected(walking_builder.graph)
              THEN Some(MaxByLen(connected_components(walking_builder.graph)))
              ELSE None]

\* the first vertex of the component taken, whatever the coordinate
_find_first_in_component(graph_builder, coords, component) ==
    LET component_nodes == SeqOfSet(component)
    IN  IF component_nodes = <<>> THEN None ELSE component_nodes[1]

\* RoutingService._find_nearest_in_component
_find_nearest_in_component(graph_builder, coords, component) ==
    LET component_nodes == SeqOfSet(component)
    IN  IF component_nodes = <<>> THEN None
        ELSE component_nodes[query(cKDTree(component_nodes), coords)]

\* what a call hands back: a Route, or the exception that leaves it.  steps
\* lists, in order, the searches and fallbacks the call went through
RouteResult(path, directions, total_distance, mode, steps) ==
    [outcome |-> "Route", route |-> path, directions |-> directions,
     total_distance_m |-> IntMeters(total_distance), mode |-> mode, steps |-> steps]

Raised(exception, steps) == [outcome |-> exception, steps |-> steps]

\* route_geom, generate_turn_instructions(path) and the returned dict
Narrate(graph, path, mode, steps) ==
    LET nav == generate_turn_instructions(graph, path)
    IN  IF nav.raised # "no" THEN Raised(nav.raised, steps)
        ELSE RouteResult(path, nav.instructions, nav.total_distance, mode, steps)

Search(mode) == [step |-> "search", mode |-> mode]
Retry(mode) == [step |-> "retry", mode |-> mode]
Downgrade(mode) == [step |-> "downgrade", mode |-> mode]

\* the requested mode kept as it came
SelectedModeAsRequested(walking, requested) == requested

\* the mode the call goes on with: "driving" unless the walking graph is used
SelectedMode(walking, requested) == IF walking THEN "walking" ELSE "driving"

\* the largest-component fallback entered in any mode
UseLargestComponentAnyMode(self, mode) == Truthy(self.walking_largest_component)

\* the largest-component fallback never entered
UseLargestComponentNever(self, mode) == mode = "Walking"

\* the guard of the largest-component fallback
UseLargestComponent(self, mode) ==
    mode = "walking" /\ Truthy(self.walking_largest_component)

\* the retry in driving mode never taken
UseDrivingFallbackNever(mode) == mode = "Walking"

\* the guard of the retry in driving mode
UseDrivingFallback(mode) == mode = "walking"

\* the mode of the recursive call
FallbackMode == "driving"

\* RoutingService.calculate_route
RECURSIVE calculate_route(_, _, _, _)
calculate_route(self, start_coords, end_coords, requested) ==
    LET walking == requested = "walking" /\ self.walking_graph_builder # None
        graph_builder == IF walking THEN self.walking_graph_builder
                         ELSE self.driving_graph_builder
        graph == graph_builder.graph
        mode == SelectedMode(walking, requested)
        start_node == snap_to_graph(graph_builder, start_coords[1], start_coords[2])
        end_node == snap_to_graph(graph_builder, end_coords[1], end_coords[2])
    IN  IF start_node = end_node
        THEN LET nav == generate_turn_instructions(graph, <<start_node>>)
             IN  RouteResult(<<start_node, end_node>>, nav.instructions,
                             nav.total_distance, mode, <<>>)
        ELSE
        LET first == shortest_path(graph, start_node, end_node)
            steps1 == <<Search(mode)>>
        IN  IF first.raised = "no" THEN Narrate(graph, first.path, mode, steps1)
            ELSE IF first.raised # "NetworkXNoPath" THEN Raised(first.raised, steps1)
            ELSE
            \* except nx.NetworkXNoPath
            LET fallback == UseLargestComponent(self, mode)
                component == self.walking_largest_component.some
                start2 == IF start_node \in component THEN start_node
                          ELSE _find_nearest_in_component(graph_builder, start_coords, component)
                end2 == IF end_node \in component THEN end_node
                        ELSE _find_nearest_in_component(graph_builder, end_coords, component)
                retry == fallback /\ start2 # None /\ end2 # None /\ start2 # end2
                second == shortest_path(graph, start2, end2)
                steps2 == steps1 \o (IF fallback THEN <<Retry(mode)>> ELSE <<>>)
                                 \o (IF retry THEN <<Search(mode)>> ELSE <<>>)
            IN  IF retry /\ second.raised = "no"
                THEN Narrate(graph, second.path, mode, steps2)
                ELSE IF retry /\ second.raised # "NetworkXNoPath"
                THEN Raised(second.raised, steps2)
                ELSE
                \* if walking fails, try driving as fallback
                IF UseDrivingFallback(mode)
                THEN LET nested == calculate_route(self, start_coords, end_coords, FallbackMode)
                         steps3 == steps2 \o <<Downgrade(mode)>> \o nested.steps
                     IN  IF nested.outcome = "RouteNotFoundError"
                         THEN Raised("RouteNotFoundError", steps3)
                         ELSE [nested EXCEPT !.steps = steps3]
                ELSE Raised("RouteNotFoundError", steps2)

----------------------------------------------------------------------------
(* The application: create_app builds both graphs and the service, then    *)
(* route requests are served.                                              *)

Service ==
    [driving_graph_builder |-> driving_graph_builder,
     walking_graph_builder |-> walking_graph_builder,
     walking_largest_component |-> walking_largest_component]

NoRequest == [start |-> <<>>, end |-> <<>>, mode |-> ""]
NoResponse == [outcome |-> "", steps |-> <<>>]

Init ==
    /\ phase = "start"
    /\ roads_gdf \in RoadFrames
    /\ footpaths_gdf \in FootpathFrames
    /\ driving_graph_builder = NewGraphBuilder
    /\ walking_graph_builder = None
    /\ walking_largest_component = None
    /\ request = NoRequest
    /\ response = NoResponse

\* create_app: both builders, then RoutingService(driving, walking)
CreateApp ==
    /\ phase = "start"
    /\ LET service == RoutingServiceInit(
                          build_from_roads(NewGraphBuilder, roads_gdf),
                          build_combined(NewGraphBuilder, roads_gdf, footpaths_gdf))
       IN  /\ driving_graph_builder' = service.driving_graph_builder
           /\ walking_graph_builder' = service.walking_graph_builder
           /\ walking_largest_component' = service.walking_largest_component
    /\ phase' = "serving"
    /\ UNCHANGED <<roads_gdf, footpaths_gdf, request, response>>

\* a service constructed without a walking builder: RoutingService(driving)
CreateDrivingOnly ==
    /\ phase = "start"
    /\ footpaths_gdf = <<>>
    /\ LET service == RoutingServiceInit(build_from_roads(NewGraphBuilder, roads_gdf), None)
       IN  /\ driving_graph_builder' = service.driving_graph_builder
           /\ walking_graph_builder' = service.walking_graph_builder
           /\ walking_largest_component' = service.walking_largest_component
    /\ phase' = "serving"
    /\ UNCHANGED <<roads_gdf, footpaths_gdf, request, response>>

\* a request that drops the cached component once the retry has used it
CalculateRouteDroppingCache(start_coords, end_coords, mode) ==
    /\ phase = "serving"
    /\ request = NoRequest
    /\ request' = [start |-> start_coords, end |-> end_coords, mode |-> mode]
    /\ response' = calculate_route(Service, start_coords, end_coords, mode)
    /\ walking_largest_component' =
           IF \E i \in DOMAIN response'.steps : response'.steps[i].step = "retry"
           THEN None ELSE walking_largest_component
    /\ UNCHANGED <<phase, roads_gdf, footpaths_gdf, driving_graph_builder,
                   walking_graph_builder>>

\* one request: routing_service.calculate_route(start_coords, end_coords, mode)
CalculateRoute(start_coords, end_coords, mode) ==
    /\ phase = "serving"
    /\ request = NoRequest
    /\ request' = [start |-> start_coords, end |-> end_coords, mode |-> mode]
    /\ response' = calculate_route(Service, start_coords, end_coords, mode)
    /\ UNCHANGED <<phase, roads_gdf, footpaths_gdf, driving_graph_builder,
                   walking_graph_builder, walking_largest_component>>

\* the handler hands the result (or the error) to the client; the service
\* keeps nothing of the request
Respond ==
    /\ phase = "serving"
    /\ request # NoRequest
    /\ request' = NoRequest
    /\ response' = NoResponse
    /\ UNCHANGED <<phase, roads_gdf, footpaths_gdf, driving_graph_builder,
                   walking_graph_builder, walking_largest_component>>

Next ==
    \/ CreateApp
    \/ CreateDrivingOnly
    \/ \E start_coords \in QueryCoords, end_coords \in QueryCoords, mode \in Modes :
           CalculateRoute(start_coords, end_coords, mode)
    \/ Respond

Spec == Init /\ [][Next]_vars

----------------------------------------------------------------------------
(* Vocabulary of the properties *)

\* a request has been served and its result is in response
Served == phase = "serving" /\ request # NoRequest

\* the service as constructed, no request in hand
Built == phase = "serving" /\ request = NoRequest

Nodes(graph) == Range(graph.nodes)

\* the graph a mode names
GraphOf(mode) ==
    IF mode = "walking" THEN walking_graph_builder.graph ELSE driving_graph_builder.graph

\* the vertex of a vertex set nearest to a coordinate
NearestVertex(vertices, coords) ==
    CHOOSE v \in vertices : \A w \in vertices : DegDistSq(v, coords) <= DegDistSq(w, coords)

\* no two vertices are equally near to a query coordinate
UniqueNearest(vertices, coords) ==
    \A v, w \in vertices : v # w => DegDistSq(v, coords) # DegDistSq(w, coords)

Connected(graph, u, v) == v \in node_connected_component(graph, u)

IsPathOf(graph, path) ==
    \A i \in 1..(Len(path) - 1) : path[i] # path[i + 1] /\ has_edge(graph, path[i], path[i + 1])

RECURSIVE PathWeight(_, _)
PathWeight(graph, path) ==
    IF Len(path) < 2 THEN 0
    ELSE graph.edges[{path[1], path[2]}].weight + PathWeight(graph, Tail(path))

Min2(a, b) == IF a < 0 THEN b ELSE IF b < 0 THEN a ELSE IF a <= b THEN a ELSE b

\* least of a set of distances in which -1 stands for "unreachable"
RECURSIVE MinOf(_)
MinOf(S) ==
    IF S = {} THEN -1
    ELSE LET x == CHOOSE y \in S : TRUE IN Min2(x, MinOf(S \ {x}))

\* one round of Bellman-Ford over the vertices from index i on; d[j] is the
\* least weight found so far for vertex graph.nodes[j]
RECURSIVE RelaxFrom(_, _, _)
RelaxFrom(graph, d, i) ==
    IF i > Len(graph.nodes) THEN <<>>
    ELSE LET v == graph.nodes[i]
             via == {j \in DOMAIN d : d[j] >= 0 /\ graph.nodes[j] \in Neighbors(graph, v)}
         IN  <<Min2(d[i], MinOf({d[j] + graph.edges[{graph.nodes[j], v}].weight : j \in via}))>>
                 \o RelaxFrom(graph, d, i + 1)

RECURSIVE LeastWeights(_, _, _)
LeastWeights(graph, d, k) ==
    IF k = 0 THEN d ELSE LeastWeights(graph, RelaxFrom(graph, d, 1), k - 1)

\* the least total weight of any path from source to target, -1 if none
LeastWeight(graph, source, target) ==
    LeastWeights(graph,
                 [i \in DOMAIN graph.nodes |-> IF graph.nodes[i] = source THEN 0 ELSE -1],
                 Len(graph.nodes) - 1)[IndexOf(graph.nodes, target)]

RequestedGraphExists ==
    \/ request.mode = "driving"
    \/ request.mode = "walking" /\ walking_graph_builder # None

StartVertex(mode) == NearestVertex(Nodes(GraphOf(mode)), request.start)
EndVertex(mode) == NearestVertex(Nodes(GraphOf(mode)), request.end)

----------------------------------------------------------------------------
(* C1: when the snapped start and end are distinct and connected in the    *)
(* graph of the requested mode, calculate_route returns a path from the    *)
(* snapped start to the snapped end over edges of that graph whose summed  *)
(* weight is the least of any path between the two.                        *)

C1_Case ==
    /\ Served
    /\ RequestedGraphExists
    /\ StartVertex(request.mode) # EndVertex(request.mode)
    /\ Connected(GraphOf(request.mode), StartVertex(request.mode), EndVertex(request.mode))

C1_ShortestPath ==
    C1_Case =>
        LET graph == GraphOf(request.mode)
            path == response.route
        IN  /\ response.outcome = "Route"
            /\ Len(path) >= 2
            /\ path[1] = StartVertex(request.mode)
            /\ path[Len(path)] = EndVertex(request.mode)
            /\ IsPathOf(graph, path)
            /\ PathWeight(graph, path) = LeastWeight(graph, path[1], path[Len(path)])

\* a served route of two or more edges that had an alternative: a neighbour
\* of the start off the route leads back onto it
C1_Witness ==
    /\ C1_Case
    /\ response.outcome = "Route"
    /\ Len(response.route) >= 3
    /\ \E v \in Neighbors(GraphOf(request.mode), response.route[1]) \ Range(response.route) :
           \E w \in Neighbors(GraphOf(request.mode), v) \cap Range(response.route) :
               w # response.route[1]

----------------------------------------------------------------------------
(* C2: when start and end snap to the same vertex v, calculate_route       *)
(* returns a Route with path [v, v], total distance 0 and exactly one      *)
(* instruction, the arrival instruction.                                   *)

C2_Case ==
    /\ Served
    /\ LET mode == IF request.mode = "walking" /\ walking_graph_builder # None
                   THEN "walking" ELSE "driving"
       IN  StartVertex(mode) = EndVertex(mode)

C2_DegenerateRoute ==
    C2_Case =>
        /\ response.outcome = "Route"
        /\ Len(response.route) = 2
        /\ response.route[1] = response.route[2]
        /\ response.total_distance_m = 0
        /\ Len(response.directions) = 1
        /\ response.directions[1].kind = "arrive"

----------------------------------------------------------------------------
(* C3: a walking request whose snapped ends lie in two components of the   *)
(* walking graph, while the driving graph connects the vertices the same   *)
(* coordinates snap to, is answered with a Route whose mode is "driving".  *)

C3_Case ==
    /\ Served
    /\ request.mode = "walking"
    /\ walking_graph_builder # None
    /\ ~Connected(GraphOf("walking"), StartVertex("walking"), EndVertex("walking"))
    /\ Connected(GraphOf("driving"), StartVertex("driving"), EndVertex("driving"))

C3_FallsBackToDriving ==
    C3_Case => response.outcome = "Route" /\ response.mode = "driving"

\* an end outside the cached largest component moves to the component's
\* vertex nearest to the query coordinate
Resnapped(vertex, coords) ==
    IF vertex \in walking_largest_component.some THEN vertex
    ELSE NearestVertex(walking_largest_component.some, coords)

\* C3 as amended: the Route is a driving one exactly when both ends re-snap
\* to one vertex of the largest walking component; otherwise it is a walking
\* Route between the two re-snapped vertices.
C3_FallsBackWhenResnapCoincides ==
    C3_Case =>
        LET start2 == Resnapped(StartVertex("walking"), request.start)
            end2 == Resnapped(EndVertex("walking"), request.end)
            path == response.route
        IN  /\ response.outcome = "Route"
            /\ walking_largest_component # None
            /\ start2 = end2 =>
                   /\ response.mode = "driving"
                   /\ path[1] = StartVertex("driving")
                   /\ path[Len(path)] = EndVertex("driving")
            /\ start2 # end2 =>
                   /\ response.mode = "walking"
                   /\ path[1] = start2
                   /\ path[Len(path)] = end2
                   /\ IsPathOf(GraphOf("walking"), path)

C3_Witness == C3_Case /\ response.outcome = "Route" /\ response.mode = "driving"

----------------------------------------------------------------------------
(* C4: the mode of every returned Route names the graph the path was       *)
(* computed on: every consecutive pair of path vertices is an edge of the  *)
(* walking graph when mode is "walking" and of the driving graph when mode *)
(* is "driving", whatever mode was requested.                              *)

C4_ModeNamesGraph ==
    Served /\ response.outcome = "Route" =>
        /\ response.mode \in {"walking", "driving"}
        /\ response.mode = "walking" => walking_graph_builder # None
        /\ \A i \in 1..(Len(response.route) - 1) :
               has_edge(GraphOf(response.mode), response.route[i], response.route[i + 1])

\* C4 as amended: every path vertex is a vertex of the graph the mode names
\* and every consecutive pair of distinct path vertices is an edge of it.
C4_ModeNamesGraphOfDistinctPairs ==
    Served /\ response.outcome = "Route" =>
        /\ response.mode \in {"walking", "driving"}
        /\ response.mode = "walking" => walking_graph_builder # None
        /\ Len(response.route) >= 2
        /\ \A i \in 1..Len(response.route) :
               response.route[i] \in Nodes(GraphOf(response.mode))
        /\ \A i \in 1..(Len(response.route) - 1) :
               response.route[i] # response.route[i + 1] =>
                   has_edge(GraphOf(response.mode), response.route[i], response.route[i + 1])

\* an unknown mode string answered with a driving route of several edges
C4_Witness ==
    /\ Served
    /\ request.mode = "cycling"
    /\ response.outcome = "Route"
    /\ response.mode = "driving"
    /\ Len(response.route) >= 3

----------------------------------------------------------------------------
(* C5: with both graphs built, a call ends with a Route or with            *)
(* RouteNotFoundError and nothing else; RouteNotFoundError only after the  *)
(* first search, the largest-component retry (walking) and the driving     *)
(* downgrade (walking) have all failed to produce a Route.                 *)

----------------------------------------------------------------------------
(* C6: a call makes at most one largest-component retry and at most one    *)
(* downgrade to driving; the nested driving call enters no walking branch  *)
(* and does not recurse; at most three searches run for one query.         *)

CountSteps(steps, kind) == Cardinality({i \in DOMAIN steps : steps[i].step = kind})

C6_BoundedFallbacks ==
    Served =>
        /\ CountSteps(response.steps, "search") <= 3
        /\ CountSteps(response.steps, "retry") <= 1
        /\ CountSteps(response.steps, "downgrade") <= 1
        /\ \A i, j \in DOMAIN response.steps :
               response.steps[i].step = "downgrade" /\ i < j =>
                   response.steps[j] = Search("driving")

\* a query that went through the retry, the downgrade and the nested search
C6_Witness ==
    /\ Served
    /\ CountSteps(response.steps, "retry") = 1
    /\ CountSteps(response.steps, "downgrade") = 1
    /\ response.steps[Len(response.steps)] = Search("driving")

----------------------------------------------------------------------------
(* C7: in a graph built by build_from_roads, build_from_footpaths or       *)
(* build_combined, snapping the coordinate of a vertex gives that vertex.  *)

\* the builders of the inputs: the two the application keeps and the
\* footpath-only one
BuiltGraphs ==
    {driving_graph_builder}
    \cup (IF walking_graph_builder = None THEN {} ELSE {walking_graph_builder})
    \cup (IF footpaths_gdf = <<>> THEN {}
          ELSE {build_from_footpaths(NewGraphBuilder, footpaths_gdf)})

C7_SnapOfVertexIsVertex ==
    Built =>
        \A builder \in BuiltGraphs :
            \A v \in Nodes(builder.graph) : snap_to_graph(builder, v[1], v[2]) = v

\* the three builders at hand, the combined graph with vertices of both layers
C7_Witness ==
    /\ Built
    /\ Cardinality(BuiltGraphs) = 3
    /\ \E v \in Nodes(walking_graph_builder.graph) :
           /\ v \notin Nodes(driving_graph_builder.graph)
           /\ snap_to_graph(walking_graph_builder, v[1], v[2]) = v

----------------------------------------------------------------------------
(* C8: a query changes neither graph, neither builder nor the cached       *)
(* largest component, so a query among any others is answered by the      *)
(* service as constructed, as it would be answered alone.                  *)

\* the service as the application constructs it from the inputs
FreshService ==
    RoutingServiceInit(
        build_from_roads(NewGraphBuilder, roads_gdf),
        IF walking_graph_builder = None THEN None
        ELSE build_combined(NewGraphBuilder, roads_gdf, footpaths_gdf))

\* between requests, however many were answered, the service is the one
\* the constructor built
C8_ServiceAsConstructed == Built => Service = FreshService

----------------------------------------------------------------------------
(* C9: after build_combined, a footpath vertex and a road vertex with no   *)
(* edge of either layer between them are joined by a Connection edge       *)
(* exactly when their haversine distance is at most 30 m.  The vertices   *)
(* taken are those of one layer only, a footpath vertex that is no road    *)
(* vertex and a road vertex that is no footpath vertex.                    *)

Native == NativeLayers(NewGraphBuilder, roads_gdf, footpaths_gdf)

IsConnection(graph, u, v) ==
    has_edge(graph, u, v) /\ graph.edges[EdgeKey(u, v)].path_type = "connection"

\* the vertices of one layer only
FootpathOnly == Range(Native.footpath_nodes) \ Range(Native.road_nodes)

RoadOnly == Range(Native.road_nodes) \ Range(Native.footpath_nodes)

C9_ConnectionIffWithin30m ==
    Built /\ walking_graph_builder # None =>
        \A f \in FootpathOnly, r \in RoadOnly :
            ~has_edge(Native.graph, f, r) =>
                (IsConnection(walking_graph_builder.graph, f, r)
                 <=> haversine_distance(f[1], f[2], r[1], r[2]) <= connection_threshold * 100)

----------------------------------------------------------------------------
(* C10: the bridging of build_combined only adds Connection edges between  *)
(* vertex pairs that had no edge: the edges of the two layers keep their   *)
(* attributes, no vertex is added or removed, and the graph has no more    *)
(* components than before the bridging.                                    *)

C10_BridgingOnlyAdds ==
    Built /\ walking_graph_builder # None =>
        LET before == Native.graph
            after == walking_graph_builder.graph
        IN  /\ after.nodes = before.nodes
            /\ \A k \in DOMAIN before.edges :
                   k \in DOMAIN after.edges /\ after.edges[k] = before.edges[k]
            /\ \A k \in DOMAIN after.edges \ DOMAIN before.edges :
                   /\ after.edges[k].path_type = "connection"
                   /\ after.edges[k].road_name = "Connection"
            /\ Len(connected_components(after)) <= Len(connected_components(before))

\* a footpath edge whose ends are a footpath vertex and a road vertex within
\* the threshold is kept, next to a Connection edge the bridging added
C10_Witness ==
    /\ Built
    /\ walking_graph_builder # None
    /\ \E f \in Range(Native.footpath_nodes), r \in Range(Native.road_nodes) :
           /\ f # r
           /\ has_edge(Native.graph, f, r)
           /\ haversine_distance(f[1], f[2], r[1], r[2]) <= connection_threshold * 100
    /\ \E k \in DOMAIN walking_graph_builder.graph.edges : k \notin DOMAIN Native.graph.edges
    /\ Len(connected_components(walking_graph_builder.graph))
           < Len(connected_components(Native.graph))

----------------------------------------------------------------------------
(* main.py: the single-module server.  Its module-level state is the       *)
(* directed graph G, the list unique_nodes and the index tree; they are    *)
(* held here in one record with the fields graph, nodes and tree.          *)

\* nx.DiGraph: edges keyed by the ordered pair (u, v)
main_has_edge(graph, u, v) == <<u, v>> \in DOMAIN graph.edges

\* G.get_edge_data(u, v)
main_get_edge_data(graph, u, v) ==
    IF main_has_edge(graph, u, v) THEN graph.edges[<<u, v>>] ELSE None

\* G.add_edge(u, v, weight=, road_name=)
main_add_edge(graph, u, v, attr) ==
    [nodes |-> AddNode(AddNode(graph.nodes, u), v),
     edges |-> (<<u, v>> :> attr) @@ graph.edges]

\* haversine_distance(p1, p2) of main.py: the same formula on two tuples
main_haversine_distance(p1, p2) == haversine_distance(p1[1], p1[2], p2[1], p2[2])

\* f"Campus Path {row.get('OBJECTID', 'Unknown')}"
main_campus_path(row) ==
    IF RowGet(row, "OBJECTID", "Unknown") = "Unknown" THEN "Campus Path Unknown"
    ELSE "Campus Path 7"

\* road_name of a row: the stripped name, or the campus path name
main_road_name(row) ==
    LET road_name == Strip(RowGet(row, "name", ""))
    IN  IF road_name = "" \/ road_name = " " THEN main_campus_path(row) ELSE road_name

\* the edges of one segment, by the row's one-way restriction
main_add_segment(graph, p1, p2, attr, oneway) ==
    IF oneway = "F" THEN main_add_edge(graph, p1, p2, attr)
    ELSE IF oneway = "B" THEN main_add_edge(graph, p2, p1, attr)
    ELSE main_add_edge(main_add_edge(graph, p1, p2, attr), p2, p1, attr)

\* the inner loop over the coordinates of one LineString, from segment i on
RECURSIVE main_AddSegments(_, _, _, _, _)
main_AddSegments(st, coords, i, road_name, oneway) ==
    IF i > Len(coords) - 1 THEN st
    ELSE LET p1 == coords[i]
             p2 == coords[i + 1]
             attr == [weight |-> main_haversine_distance(p1, p2), road_name |-> road_name]
             next == [graph |-> main_add_segment(st.graph, p1, p2, attr, oneway),
                      nodes |-> st.nodes \o <<p1, p2>>]
         IN  InOrder(next, main_AddSegments(next, coords, i + 1, road_name, oneway))

\* the loop over roads.iterrows(), from row r on; only LineStrings count
RECURSIVE main_AddRows(_, _, _)
main_AddRows(st, roads, r) ==
    IF r > Len(roads) THEN st
    ELSE LET row == roads[r]
         IN  IF row.geometry # None /\ row.geometry.type = "LineString"
             THEN LET next == main_AddSegments(st, row.geometry.coords, 1,
                                  main_road_name(row), RowGet(row, "oneway", "N"))
                  IN  InOrder(next, main_AddRows(next, roads, r + 1))
             ELSE main_AddRows(st, roads, r + 1)

\* the module-level load: G, unique_nodes and tree after the try block
main_load(roads) ==
    LET built == main_AddRows([graph |-> EmptyGraph, nodes |-> <<>>], roads, 1)
    IN  IF built.nodes # <<>>
        THEN LET unique_nodes == SeqOfSet(Range(built.nodes))
             IN  [graph |-> built.graph, nodes |-> unique_nodes, tree |-> cKDTree(unique_nodes)]
        ELSE [graph |-> built.graph, nodes |-> <<>>, tree |-> None]

\* snap_to_graph(lon, lat) of main.py
main_snap_to_graph(self, lon, lat) ==
    IF self.tree = None \/ self.nodes = <<>> THEN <<lon, lat>>
    ELSE self.nodes[query(self.tree, <<lon, lat>>)]

\* calculate_bearing(p1, p2) of main.py: the compass bearing in 0..359.  At
\* the latitudes and separations modelled x is delta_lon and y is delta_lat
main_calculate_bearing(p1, p2) ==
    (Atan2Deg(p2[1] - p1[1], p2[2] - p1[2]) + 360) % 360

\* bearing_to_direction(bearing): int((bearing + 22.5) / 45) % 8
main_bearing_to_direction(bearing) ==
    << "north", "northeast", "east", "southeast",
       "south", "southwest", "west", "northwest" >>[(((2 * bearing + 45) \div 90) % 8) + 1]

\* turn_direction(angle_diff) of main.py
main_turn_direction(angle_diff) ==
    LET abs_diff == Abs(angle_diff)
    IN  IF abs_diff < 45 THEN "continue straight"
        ELSE IF abs_diff < 80
             THEN (IF angle_diff > 0 THEN "slight left" ELSE "slight right")
        ELSE IF abs_diff < 135
             THEN (IF angle_diff > 0 THEN "turn left" ELSE "turn right")
        ELSE IF abs_diff < 170
             THEN (IF angle_diff > 0 THEN "sharp left" ELSE "sharp right")
        ELSE "make a U-turn"

\* the instruction texts of main.py, by their parts
main_HeadInstruction(direction, road) ==
    [kind |-> "head", direction |-> direction, road |-> road]

main_TurnInstruction(segment_distance, turn, next_road, current_road) ==
    IF next_road # current_road
    THEN [kind |-> "turn onto", meters |-> IntMeters(segment_distance),
          turn |-> turn, road |-> next_road]
    ELSE [kind |-> "turn to stay on", meters |-> IntMeters(segment_distance),
          turn |-> turn, road |-> current_road]

main_ContinueOntoInstruction(segment_distance, next_road) ==
    [kind |-> "continue onto", meters |-> IntMeters(segment_distance), road |-> next_road]

main_ArriveInstruction(segment_distance) ==
    [kind |-> "arrive", meters |-> IntMeters(segment_distance)]

\* the return of generate_turn_instructions of main.py after its loop:
\* the arrival is appended when segment_distance > 0
main_Finish(path, st) ==
    IF st.segment_distance > 0
    THEN [raised |-> "no",
          instructions |-> Append(st.instructions, main_ArriveInstruction(st.segment_distance)),
          total_distance |-> st.total_distance,
          instruction_coords |-> Append(st.instruction_coords, Len(path) - 1)]
    ELSE [raised |-> "no", instructions |-> st.instructions,
          total_distance |-> st.total_distance,
          instruction_coords |-> st.instruction_coords]

\* the for loop of generate_turn_instructions of main.py, from iteration i
\* on (i counts from 1; instruction_coords keeps the code's indices from 0).
\* Distances are in centimetres: the 2 m threshold is 200
RECURSIVE main_InstructionLoop(_, _, _, _)
main_InstructionLoop(graph, path, i, st) ==
    IF i > Len(path) - 1 THEN main_Finish(path, st)
    ELSE LET edge_data == main_get_edge_data(graph, path[i], path[i + 1])
             dist == IF edge_data # None THEN edge_data.weight ELSE 0
             segment_distance == st.segment_distance + dist
             total_distance == st.total_distance + dist
             moved == [st EXCEPT !.segment_distance = segment_distance,
                                 !.total_distance = total_distance]
         IN  IF i < Len(path) - 1
             THEN LET next_edge == main_get_edge_data(graph, path[i + 1], path[i + 2])
                  IN  IF next_edge = None THEN Raise("TypeError")
                      ELSE
                      LET prev_bearing == main_calculate_bearing(path[i], path[i + 1])
                          next_bearing == main_calculate_bearing(path[i + 1], path[i + 2])
                          diff == BearingDiff(prev_bearing, next_bearing)
                          turn == main_turn_direction(diff)
                          next_road == next_edge.road_name
                          should_add_instruction ==
                              turn # "continue straight" \/ next_road # st.current_road
                          instruction_text ==
                              IF turn # "continue straight"
                              THEN main_TurnInstruction(segment_distance, turn, next_road,
                                                        st.current_road)
                              ELSE main_ContinueOntoInstruction(segment_distance, next_road)
                      IN  IF should_add_instruction /\ segment_distance > 200
                          THEN main_InstructionLoop(graph, path, i + 1,
                                   [instructions |-> Append(st.instructions, instruction_text),
                                    instruction_coords |-> Append(st.instruction_coords, i),
                                    total_distance |-> total_distance,
                                    segment_distance |-> 0,
                                    current_road |-> next_road])
                          ELSE main_InstructionLoop(graph, path, i + 1, moved)
             ELSE main_InstructionLoop(graph, path, i + 1, moved)

\* generate_turn_instructions(path) of main.py on the module's G
main_generate_turn_instructions(graph, path) ==
    IF Len(path) < 2
    THEN [raised |-> "no", instructions |-> <<[kind |-> "already there"]>>,
          total_distance |-> 0, instruction_coords |-> <<0>>]
    ELSE LET edge_data == main_get_edge_data(graph, path[1], path[2])
         IN  IF edge_data = None THEN Raise("TypeError")
             ELSE main_InstructionLoop(graph, path, 1,
                      [instructions |-> <<main_HeadInstruction(
                           main_bearing_to_direction(main_calculate_bearing(path[1], path[2])),
                           edge_data.road_name)>>,
                       instruction_coords |-> <<0>>,
                       total_distance |-> 0, segment_distance |-> 0,
                       current_road |-> edge_data.road_name])

----------------------------------------------------------------------------
(* The builders on their own.  A second catalogue of input rows holds what *)
(* the first leaves out: two rows over the same pair of points, within the *)
(* road layer and across the layers, a row marked one-way, and rows        *)
(* without geometry; a frame may be empty.                                 *)

SurveyRoadCatalogue ==
    << Row(LineString(<<PA, PB, PC>>), [name |-> "Main Road"]),
       Row(LineString(<<PB, PA>>), [name |-> "Service Lane", oneway |-> "B"]),
       Row(LineString(<<PB, PD>>), [name |-> "North Road", oneway |-> "F"]),
       Row(None, [name |-> "Ghost Road"]) >>

SurveyFootpathCatalogue ==
    << Row(LineString(<<PB, PD>>), [name |-> "Shortcut"]),
       Row(LineString(<<PU, PV>>), [WNAME |-> " Garden Walk "]),
       Row(None, <<>>) >>

SurveyRoadFrames == Frames(SurveyRoadCatalogue, 0, MaxRoadFeatures)
SurveyFootpathFrames == Frames(SurveyFootpathCatalogue, 0, MaxFootpathFeatures)

\* the state after the two layers were read, no builder called yet
BuildInit ==
    /\ phase = "loaded"
    /\ roads_gdf \in SurveyRoadFrames
    /\ footpaths_gdf \in SurveyFootpathFrames
    /\ driving_graph_builder = None
    /\ walking_graph_builder = None
    /\ walking_largest_component = None
    /\ request = NoRequest
    /\ response = NoResponse

\* GraphBuilder().build_from_roads(roads)
BuildFromRoads ==
    /\ phase = "loaded"
    /\ phase' = "built"
    /\ request' = [builder |-> "build_from_roads"]
    /\ response' = build_from_roads(NewGraphBuilder, roads_gdf)
    /\ UNCHANGED <<roads_gdf, footpaths_gdf, driving_graph_builder,
                   walking_graph_builder, walking_largest_component>>

\* GraphBuilder().build_from_footpaths(footpaths)
BuildFromFootpaths ==
    /\ phase = "loaded"
    /\ phase' = "built"
    /\ request' = [builder |-> "build_from_footpaths"]
    /\ response' = build_from_footpaths(NewGraphBuilder, footpaths_gdf)
    /\ UNCHANGED <<roads_gdf, footpaths_gdf, driving_graph_builder,
                   walking_graph_builder, walking_largest_component>>

\* GraphBuilder().build_combined(roads, footpaths)
BuildCombined ==
    /\ phase = "loaded"
    /\ phase' = "built"
    /\ request' = [builder |-> "build_combined"]
    /\ response' = build_combined(NewGraphBuilder, roads_gdf, footpaths_gdf)
    /\ UNCHANGED <<roads_gdf, footpaths_gdf, driving_graph_builder,
                   walking_graph_builder, walking_largest_component>>

\* the module-level load of main.py on the road layer
MainLoad ==
    /\ phase = "loaded"
    /\ phase' = "built"
    /\ request' = [builder |-> "main"]
    /\ response' = main_load(roads_gdf)
    /\ UNCHANGED <<roads_gdf, footpaths_gdf, driving_graph_builder,
                   walking_graph_builder, walking_largest_component>>

\* the builder of build_from_roads becomes the service's driving graph and a
\* driving route is asked between two of its vertices
DriveOnRoads ==
    /\ phase = "built"
    /\ request.builder = "build_from_roads"
    /\ ~IsRaised(response)
    /\ \E start_coords \in Range(response.nodes), end_coords \in Range(response.nodes) :
           /\ request' = [builder |-> "build_from_roads", start |-> start_coords,
                          end |-> end_coords, mode |-> "driving"]
           /\ response' = calculate_route(RoutingServiceInit(response, None),
                                          start_coords, end_coords, "driving")
    /\ driving_graph_builder' = response
    /\ phase' = "routed"
    /\ UNCHANGED <<roads_gdf, footpaths_gdf, walking_graph_builder,
                   walking_largest_component>>

\* builder.snap_to_graph(lon, lat) on the builder a build returned
SnapToGraph ==
    /\ phase = "built"
    /\ request.builder # "main"
    /\ ~IsRaised(response)
    /\ \E coords \in QueryCoords :
           /\ request' = [builder |-> request.builder, lon |-> coords[1], lat |-> coords[2]]
           /\ response' = [point |-> snap_to_graph(response, coords[1], coords[2])]
    /\ driving_graph_builder' = response
    /\ phase' = "snapped"
    /\ UNCHANGED <<roads_gdf, footpaths_gdf, walking_graph_builder,
                   walking_largest_component>>

\* snap_to_graph(lon, lat) of main.py on the module state the load left
MainSnapToGraph ==
    /\ phase = "built"
    /\ request.builder = "main"
    /\ \E coords \in QueryCoords :
           /\ request' = [builder |-> "main", lon |-> coords[1], lat |-> coords[2]]
           /\ response' = [point |-> main_snap_to_graph(response, coords[1], coords[2])]
    /\ driving_graph_builder' = response
    /\ phase' = "snapped"
    /\ UNCHANGED <<roads_gdf, footpaths_gdf, walking_graph_builder,
                   walking_largest_component>>

BuildNext ==
    \/ BuildFromRoads
    \/ BuildFromFootpaths
    \/ BuildCombined
    \/ MainLoad
    \/ DriveOnRoads
    \/ SnapToGraph
    \/ MainSnapToGraph

BuildSpec == BuildInit /\ [][BuildNext]_vars

----------------------------------------------------------------------------
(* C11: when two input segments have the same pair of end points, within   *)
(* one layer or one in each layer, the built graph holds one edge for the  *)
(* pair, and its weight, name and kind are those of the segment added      *)
(* first.                                                                  *)

\* the segments of one line, in the order the builder meets them
RECURSIVE SegmentsOfLine(_, _, _, _)
SegmentsOfLine(coords, i, road_name, path_type) ==
    IF i > Len(coords) - 1 THEN <<>>
    ELSE << [p1 |-> coords[i], p2 |-> coords[i + 1],
             attr |-> [weight |-> haversine_distance(coords[i][1], coords[i][2],
                                                     coords[i + 1][1], coords[i + 1][2]),
                       road_name |-> road_name, path_type |-> path_type]] >>
         \o SegmentsOfLine(coords, i + 1, road_name, path_type)

RECURSIVE SegmentsOfLines(_, _, _, _)
SegmentsOfLines(lines, j, road_name, path_type) ==
    IF j > Len(lines) THEN <<>>
    ELSE SegmentsOfLine(lines[j], 1, road_name, path_type)
         \o SegmentsOfLines(lines, j + 1, road_name, path_type)

RECURSIVE SegmentsOfLayer(_, _, _)
SegmentsOfLayer(gdf, r, path_type) ==
    IF r > Len(gdf) THEN <<>>
    ELSE SegmentsOfLines(_line_geometries(gdf[r].geometry), 1,
                         IF path_type = "road" THEN RoadName(gdf[r])
                         ELSE FootpathName(gdf[r]),
                         path_type)
         \o SegmentsOfLayer(gdf, r + 1, path_type)

\* the segments the builder named in request was given, in order
InputSegments ==
    (IF request.builder \in {"build_from_roads", "build_combined"}
     THEN SegmentsOfLayer(roads_gdf, 1, "road") ELSE <<>>)
    \o (IF request.builder \in {"build_from_footpaths", "build_combined"}
        THEN SegmentsOfLayer(footpaths_gdf, 1, "footpath") ELSE <<>>)

BuiltGraph == phase = "built" /\ ~IsRaised(response)

C11_FirstWriterWins ==
    BuiltGraph =>
        LET segments == InputSegments
        IN  \A i \in DOMAIN segments :
                (\A k \in 1..(i - 1) :
                     EdgeKey(segments[k].p1, segments[k].p2)
                         # EdgeKey(segments[i].p1, segments[i].p2))
                => /\ has_edge(response.graph, segments[i].p1, segments[i].p2)
                   /\ get_edge_data(response.graph, segments[i].p1, segments[i].p2)
                          = segments[i].attr

----------------------------------------------------------------------------
(* The narration on its own.  One road network is built, by the backend or *)
(* by main.py, and the calls are made on it with every vertex sequence up  *)
(* to MaxPathLen, paths of the graph or not: a straight road of four vertices, a road that goes on     *)
(* straight under another name, a side road at a right angle, and a        *)
(* segment whose two ends are the same point.                              *)

PH == <<120, 0>>
PJ == <<160, 0>>

NavRoads ==
    << Row(LineString(<<PA, PB, PC, PH>>), [name |-> "Main Road"]),
       Row(LineString(<<PH, PJ>>), [name |-> "East Road"]),
       Row(LineString(<<PB, PD, PD>>), [name |-> "North Road"]) >>

NavBuilder == build_from_roads(NewGraphBuilder, NavRoads)

NavGraph == NavBuilder.graph

NavVertices == Range(NavBuilder.nodes)

NavPaths == UNION {[1..l -> NavVertices] : l \in 0..MaxPathLen}

\* the calls made: the narration of a vertex sequence, or a driving route
\* between two vertices
NavCalls ==
    {[call |-> "generate_turn_instructions", path |-> path] : path \in NavPaths}
    \cup {[call |-> "calculate_route", start |-> start_coords, end |-> end_coords,
           mode |-> "driving"] : start_coords \in NavVertices, end_coords \in NavVertices}

\* the same network as loaded by main.py, and the narrations asked of it
main_NavState == main_load(NavRoads)

main_NavCalls ==
    {[call |-> "main.generate_turn_instructions", path |-> path] : path \in NavPaths}

NavInit ==
    /\ phase = "called"
    /\ roads_gdf = NavRoads
    /\ footpaths_gdf = <<>>
    /\ \/ driving_graph_builder = NavBuilder /\ request \in NavCalls
       \/ driving_graph_builder = main_NavState /\ request \in main_NavCalls
    /\ walking_graph_builder = None
    /\ walking_largest_component = None
    /\ response = NoResponse

\* NavigationService(graph).generate_turn_instructions(path)
GenerateTurnInstructions ==
    /\ phase = "called"
    /\ request.call = "generate_turn_instructions"
    /\ phase' = "returned"
    /\ response' = generate_turn_instructions(driving_graph_builder.graph, request.path)
    /\ UNCHANGED <<roads_gdf, footpaths_gdf, driving_graph_builder,
                   walking_graph_builder, walking_largest_component, request>>

\* RoutingService(driving_graph_builder).calculate_route(start, end, mode)
RouteOnRoads ==
    /\ phase = "called"
    /\ request.call = "calculate_route"
    /\ phase' = "returned"
    /\ response' = calculate_route(Service, request.start, request.end, request.mode)
    /\ UNCHANGED <<roads_gdf, footpaths_gdf, driving_graph_builder,
                   walking_graph_builder, walking_largest_component, request>>

\* generate_turn_instructions(path) of main.py
MainGenerateTurnInstructions ==
    /\ phase = "called"
    /\ request.call = "main.generate_turn_instructions"
    /\ phase' = "returned"
    /\ response' = main_generate_turn_instructions(driving_graph_builder.graph, request.path)
    /\ UNCHANGED <<roads_gdf, footpaths_gdf, driving_graph_builder,
                   walking_graph_builder, walking_largest_component, request>>

NavNext ==
    \/ GenerateTurnInstructions
    \/ RouteOnRoads
    \/ MainGenerateTurnInstructions

NavSpec == NavInit /\ [][NavNext]_vars

\* a vertex sequence whose consecutive vertices are all joined by edges
EdgesExist(graph, path) ==
    \A i \in 1..(Len(path) - 1) : has_edge(graph, path[i], path[i + 1])

Narrated ==
    phase = "returned" /\ request.call = "generate_turn_instructions"

Routed == phase = "returned" /\ request.call = "calculate_route"

MainNarrated ==
    phase = "returned" /\ request.call = "main.generate_turn_instructions"

----------------------------------------------------------------------------
(* C12: for a path whose consecutive vertices are all joined by edges,     *)
(* generate_turn_instructions returns as total distance the sum of the     *)
(* weights of those edges, and calculate_route reports that sum truncated  *)
(* to whole metres as total_distance_m.                                    *)

C12_DistanceIsSumOfWeights ==
    /\ Narrated /\ Len(request.path) >= 2 /\ EdgesExist(NavGraph, request.path) =>
           /\ response.raised = "no"
           /\ response.total_distance = PathWeight(NavGraph, request.path)
    /\ Routed /\ response.outcome = "Route" =>
           LET sum == IF request.start = request.end THEN 0
                      ELSE PathWeight(NavGraph, response.route)
           IN  /\ response.total_distance_m * 100 <= sum
               /\ sum < (response.total_distance_m + 1) * 100

\* the shortest path A-B-C: 39.95 m + 39.95 m reported as 79 m
C12_Witness ==
    /\ Routed
    /\ response.outcome = "Route"
    /\ response.route = <<PA, PB, PC>>
    /\ response.total_distance_m
           = (NavGraph.edges[{PA, PB}].weight + NavGraph.edges[{PB, PC}].weight) \div 100
    /\ response.total_distance_m * 100 < PathWeight(NavGraph, response.route)

----------------------------------------------------------------------------
(* C13: a path of two or more vertices along a straight road whose edges   *)
(* all carry one name is narrated with exactly one instruction, the        *)
(* arrival, however many vertices lie between its ends.                    *)

\* consecutive segments point the same way: collinear and not turned back
SameHeading(p, q, r) ==
    /\ (q[1] - p[1]) * (r[2] - q[2]) = (q[2] - p[2]) * (r[1] - q[1])
    /\ (q[1] - p[1]) * (r[1] - q[1]) + (q[2] - p[2]) * (r[2] - q[2]) > 0

StraightOneName(graph, path) ==
    /\ Len(path) >= 2
    /\ EdgesExist(graph, path)
    /\ \A i \in 1..(Len(path) - 1) :
           /\ path[i] # path[i + 1]
           /\ graph.edges[{path[i], path[i + 1]}].road_name
                  = graph.edges[{path[1], path[2]}].road_name
    /\ \A i \in 1..(Len(path) - 2) : SameHeading(path[i], path[i + 1], path[i + 2])

C13_StraightRoadOneInstruction ==
    Narrated /\ StraightOneName(NavGraph, request.path) =>
        /\ response.raised = "no"
        /\ Len(response.instructions) = 1
        /\ response.instructions[1].kind = "arrive"

C13_Witness ==
    /\ Narrated
    /\ request.path = <<PA, PB, PC, PH>>
    /\ StraightOneName(NavGraph, request.path)
    /\ Len(response.instructions) = 1

----------------------------------------------------------------------------
(* turn_direction on its own: called with every whole-degree value the     *)
(* normalisation (next - prev + 180) % 360 - 180 can produce.              *)

TurnDiffs == -180..179

TurnCalls ==
    {[call |-> c, angle_diff |-> d] :
        c \in {"turn_direction", "main.turn_direction"}, d \in TurnDiffs}

TurnInit ==
    /\ phase = "called"
    /\ roads_gdf = <<>>
    /\ footpaths_gdf = <<>>
    /\ driving_graph_builder = None
    /\ walking_graph_builder = None
    /\ walking_largest_component = None
    /\ request \in TurnCalls
    /\ response = NoResponse

\* backend.utils.geo_utils.turn_direction(angle_diff)
TurnDirection ==
    /\ phase = "called"
    /\ request.call = "turn_direction"
    /\ phase' = "returned"
    /\ response' = [label |-> turn_direction(request.angle_diff)]
    /\ UNCHANGED <<roads_gdf, footpaths_gdf, driving_graph_builder,
                   walking_graph_builder, walking_largest_component, request>>

\* turn_direction(angle_diff) of main.py
MainTurnDirection ==
    /\ phase = "called"
    /\ request.call = "main.turn_direction"
    /\ phase' = "returned"
    /\ response' = [label |-> main_turn_direction(request.angle_diff)]
    /\ UNCHANGED <<roads_gdf, footpaths_gdf, driving_graph_builder,
                   walking_graph_builder, walking_largest_component, request>>

TurnNext ==
    \/ TurnDirection
    \/ MainTurnDirection

TurnSpec == TurnInit /\ [][TurnNext]_vars

----------------------------------------------------------------------------
(* C14: turn_direction gives every normalized bearing difference d the     *)
(* label of exactly one documented band: "continue straight" only when     *)
(* |d| < 20, "turn left" only when d > 20, "turn right" only when          *)
(* d <= -20; +20 and -20 each get a single label of their band.            *)

C14_TurnBands ==
    phase = "returned" =>
        LET d == request.angle_diff
            label == Lower(response.label)
        IN  /\ label \in {"continue straight", "turn left", "turn right"}
            /\ label = "continue straight" => Abs(d) < 20
            /\ label = "turn left" => d > 20
            /\ label = "turn right" => d <= -20

----------------------------------------------------------------------------
(* The narration read back against the path: which program ran, the edge   *)
(* it traverses between two vertices, and the interior vertices where a    *)
(* manoeuvre is due (a turn, or a change of road name).                    *)

AnyNarrated == Narrated \/ MainNarrated

RanMain == request.call = "main.generate_turn_instructions"

Joined(u, v) ==
    IF RanMain THEN main_has_edge(driving_graph_builder.graph, u, v)
    ELSE has_edge(driving_graph_builder.graph, u, v)

EdgeOf(u, v) ==
    IF RanMain THEN driving_graph_builder.graph.edges[<<u, v>>]
    ELSE driving_graph_builder.graph.edges[{u, v}]

ValidPath(path) ==
    Len(path) >= 2 /\ \A i \in 1..(Len(path) - 1) : Joined(path[i], path[i + 1])

\* the turn at interior vertex i, in lower case
TurnAt(path, i) ==
    IF RanMain
    THEN main_turn_direction(BearingDiff(main_calculate_bearing(path[i - 1], path[i]),
                                         main_calculate_bearing(path[i], path[i + 1])))
    ELSE Lower(turn_direction(BearingDiff(calculate_bearing(path[i - 1], path[i]),
                                          calculate_bearing(path[i], path[i + 1]))))

ManoeuvreAt(path) ==
    {i \in 2..(Len(path) - 1) :
        \/ TurnAt(path, i) # "continue straight"
        \/ EdgeOf(path[i - 1], path[i]).road_name # EdgeOf(path[i], path[i + 1]).road_name}

\* a set of indices in increasing order
Ascending(S) ==
    [k \in 1..Cardinality(S) |->
        CHOOSE i \in S : Cardinality({j \in S : j < i}) = k - 1]

\* the weight of the edges traversed from vertex a to vertex b of the path
RECURSIVE WeightBetween(_, _, _)
WeightBetween(path, a, b) ==
    IF a >= b THEN 0
    ELSE EdgeOf(path[a], path[a + 1]).weight + WeightBetween(path, a + 1, b)

\* the instructions returned, each with the index of the vertex it is
\* located at: the backend gives the vertex, main.py its index from 0
Located(path) ==
    [k \in DOMAIN response.instructions |->
        [kind |-> response.instructions[k].kind,
         meters |-> IF "meters" \in DOMAIN response.instructions[k]
                    THEN response.instructions[k].meters ELSE -1,
         index |-> IF RanMain THEN {response.instruction_coords[k] + 1}
                   ELSE {i \in DOMAIN path : path[i] = response.instructions[k].location}]]

IsManoeuvre(instruction) ==
    instruction.kind \in {"turn", "turn onto", "turn to stay on", "continue onto"}

Manoeuvres(path) == SelectSeq(Located(path), IsManoeuvre)

----------------------------------------------------------------------------
(* C15: at every interior vertex of a path an instruction is appended when *)
(* the turn there is not "continue straight" and also when it is straight  *)
(* but the next edge's road name differs; each of them quotes the distance *)
(* since the previous one (the count restarts at 0), and nothing is        *)
(* appended at any other vertex.                                           *)

C15_InstructionAtTurnOrRoadChange ==
    AnyNarrated /\ ValidPath(request.path) =>
        /\ ~IsRaised(response)
        /\ LET path == request.path
               due == Ascending(ManoeuvreAt(path))
               given == Manoeuvres(path)
           IN  /\ Len(given) = Len(due)
               /\ \A k \in DOMAIN given :
                      /\ due[k] \in given[k].index
                      /\ given[k].meters
                             = IntMeters(WeightBetween(path,
                                   IF k = 1 THEN 1 ELSE due[k - 1], due[k]))

----------------------------------------------------------------------------
(* C16: for every valid path of two or more vertices the last instruction  *)
(* returned is the arrival, located at the last vertex and quoting the     *)
(* distance since the last manoeuvre; it is there also when that distance  *)
(* is 0.                                                                   *)

C16_ArrivalAlwaysLast ==
    AnyNarrated /\ ValidPath(request.path) =>
        /\ ~IsRaised(response)
        /\ response.instructions # <<>>
        /\ LET path == request.path
               last == Located(path)[Len(response.instructions)]
               due == ManoeuvreAt(path)
               from == IF due = {} THEN 1 ELSE Ascending(due)[Cardinality(due)]
           IN  /\ last.kind = "arrive"
               /\ Len(path) \in last.index
               /\ last.meters = IntMeters(WeightBetween(path, from, Len(path)))

\* the same for the backend's NavigationService alone
C16_BackendArrivalAlwaysLast == ~RanMain => C16_ArrivalAlwaysLast

----------------------------------------------------------------------------
(* C17: if any two consecutive vertices of the path are not joined by an   *)
(* edge, generate_turn_instructions raises and returns neither             *)
(* instructions nor a distance, wherever in the path the gap is; the       *)
(* missing edge is never counted with weight 0.                            *)

C17_MissingEdgeRaises ==
    AnyNarrated /\ Len(request.path) >= 2 /\ ~ValidPath(request.path) =>
        /\ IsRaised(response)
        /\ DOMAIN response = {"raised"}

\* the gap is the last pair of a four-vertex path whose other pairs are joined
C17_Witness ==
    /\ Narrated
    /\ Len(request.path) = 4
    /\ ValidPath(SubSeq(request.path, 1, 3))
    /\ ~Joined(request.path[3], request.path[4])
    /\ response = Raise("ValueError")

----------------------------------------------------------------------------
(* C18: in the driving graph a segment of a feature marked forward-only    *)
(* is traversable only from its earlier to its later vertex, one marked    *)
(* backward-only only the other way, any other segment both ways; and no   *)
(* driving route returned traverses a one-way segment against its          *)
(* permitted direction.                                                    *)

\* some segment of the road layer permits driving from u to v
Permitted(u, v) ==
    \E r \in DOMAIN roads_gdf :
        \E line \in Range(_line_geometries(roads_gdf[r].geometry)) :
            \E i \in 1..(Len(line) - 1) :
                LET oneway == RowGet(roads_gdf[r], "oneway", "N")
                IN  \/ oneway # "B" /\ u = line[i] /\ v = line[i + 1]
                    \/ oneway # "F" /\ u = line[i + 1] /\ v = line[i]

\* the built driving graph lets one go from u to v
Traversable(u, v) ==
    IF request.builder = "main" THEN main_has_edge(response.graph, u, v)
    ELSE has_edge(response.graph, u, v)

DrivingGraphBuilt ==
    BuiltGraph /\ request.builder \in {"build_from_roads", "main"}

C18_OneWayRespected ==
    /\ DrivingGraphBuilt =>
           \A u \in Range(response.nodes), v \in Range(response.nodes) :
               Traversable(u, v) <=> Permitted(u, v)
    /\ phase = "routed" /\ response.outcome = "Route" /\ request.start # request.end =>
           \A i \in 1..(Len(response.route) - 1) :
               Permitted(response.route[i], response.route[i + 1])

\* the graph half of C18 for the graph main.py loads
C18_MainOneWayRespected ==
    DrivingGraphBuilt /\ request.builder = "main" => C18_OneWayRespected

\* the route half of C18 for the backend
C18_RoutesFollowOneWay == phase = "routed" => C18_OneWayRespected

----------------------------------------------------------------------------
(* The route handlers on their own: GET /api/v1/route (get_route) and      *)
(* GET /route (legacy_route).  A query argument is absent (None) or a      *)
(* string, kept as the parts value.split(',') gives; a part is a numeral   *)
(* with the float it parses to, in whole degrees, or a text float()        *)
(* refuses.  The service holds one road from (0, 0) to (1, 0) degrees,     *)
(* 111194.95 m long.                                                       *)

Numeral(n) == [num |-> n]
Text(t) == [text |-> t]

ArgParts == {Numeral(0), Numeral(95), Numeral(200), Text("x")}

\* request.args.get(name): None, the empty string, or parts between commas
ArgValues ==
    {None, [parts |-> <<Text("")>>]}
    \cup {[parts |-> parts] : parts \in UNION {[1..l -> ArgParts] : l \in 1..MaxParts}}

HandlerBuilder ==
    LET unique_nodes == << <<0, 0>>, <<1, 0>> >>
    IN  [graph |-> [nodes |-> unique_nodes,
                    edges |-> ({<<0, 0>>, <<1, 0>>} :>
                                  [weight |-> 11119495, road_name |-> "Main Road",
                                   path_type |-> "road"])],
         nodes |-> unique_nodes,
         tree |-> cKDTree(unique_nodes)]

\* 'not value' for a query argument
Falsy(value) == value = None \/ value.parts = <<Text("")>>

\* tuple(map(float, parts)): the floats, or ValueError at the first text
FloatTuple(parts) ==
    IF \E i \in DOMAIN parts : "num" \notin DOMAIN parts[i] THEN Raise("ValueError")
    ELSE [raised |-> "no", coords |-> [i \in DOMAIN parts |-> parts[i].num]]

\* _parse_coords(value, label)
_parse_coords(value, label) ==
    IF Falsy(value) THEN Raise("ValidationError")
    ELSE IF Len(value.parts) # 2 THEN Raise("ValidationError")
    ELSE LET floats == FloatTuple(value.parts)
         IN  IF IsRaised(floats) THEN Raise("ValidationError") ELSE floats

VALID_MODES == {"driving", "walking"}

\* get_route() with the query arguments start, end and mode
get_route(self, start, end, mode) ==
    IF Falsy(start) \/ Falsy(end) THEN Raised("ValidationError", <<>>)
    ELSE IF mode \notin VALID_MODES THEN Raised("ValidationError", <<>>)
    ELSE LET start_coords == _parse_coords(start, "start")
             end_coords == _parse_coords(end, "end")
         IN  IF IsRaised(start_coords) THEN Raised(start_coords.raised, <<>>)
             ELSE IF IsRaised(end_coords) THEN Raised(end_coords.raised, <<>>)
             ELSE calculate_route(self, start_coords.coords, end_coords.coords, mode)

\* legacy_route(): its own 400 answers are the outcome "400"; a tuple of
\* other than two floats makes snap_to_graph(*coords) raise TypeError
legacy_route(self, start, end, mode) ==
    IF Falsy(start) \/ Falsy(end) THEN Raised("400", <<>>)
    ELSE LET start_coords == FloatTuple(start.parts)
             end_coords == FloatTuple(end.parts)
         IN  IF IsRaised(start_coords) \/ IsRaised(end_coords) THEN Raised("400", <<>>)
             ELSE IF Len(start_coords.coords) # 2 \/ Len(end_coords.coords) # 2
             THEN Raised("TypeError", <<>>)
             ELSE calculate_route(self, start_coords.coords, end_coords.coords, mode)

HandlerInit ==
    /\ phase = "received"
    /\ roads_gdf = <<>>
    /\ footpaths_gdf = <<>>
    /\ driving_graph_builder = HandlerBuilder
    /\ walking_graph_builder = None
    /\ walking_largest_component = None
    /\ \E h \in {"get_route", "legacy_route"}, start \in ArgValues, end \in ArgValues,
          mode \in Modes :
           request = [handler |-> h, start |-> start, end |-> end, mode |-> mode]
    /\ response = NoResponse

GetRoute ==
    /\ phase = "received"
    /\ request.handler = "get_route"
    /\ phase' = "responded"
    /\ response' = get_route(Service, request.start, request.end, request.mode)
    /\ UNCHANGED <<roads_gdf, footpaths_gdf, driving_graph_builder,
                   walking_graph_builder, walking_largest_component, request>>

LegacyRoute ==
    /\ phase = "received"
    /\ request.handler = "legacy_route"
    /\ phase' = "responded"
    /\ response' = legacy_route(Service, request.start, request.end, request.mode)
    /\ UNCHANGED <<roads_gdf, footpaths_gdf, driving_graph_builder,
                   walking_graph_builder, walking_largest_component, request>>

HandlerNext ==
    \/ GetRoute
    \/ LegacyRoute

HandlerSpec == HandlerInit /\ [][HandlerNext]_vars

----------------------------------------------------------------------------
(* C19: a route request whose start or end coordinate is not parseable,    *)
(* or is out of range (longitude outside [-180, 180], latitude outside     *)
(* [-90, 90]), is rejected with a validation error before any snapping or  *)
(* path search, and is not retried.                                        *)

\* the argument is a pair of numerals
Parseable(value) ==
    /\ value # None
    /\ Len(value.parts) = 2
    /\ \A i \in 1..2 : "num" \in DOMAIN value.parts[i]

InRange(value) ==
    /\ Abs(value.parts[1].num) <= 180
    /\ Abs(value.parts[2].num) <= 90

BadCoordinate(value) == ~Parseable(value) \/ ~InRange(value)

C19_BadCoordinatesRejected ==
    phase = "responded" /\ (BadCoordinate(request.start) \/ BadCoordinate(request.end)) =>
        /\ response.outcome \in {"ValidationError", "400"}
        /\ response.steps = <<>>

\* the unparseable half of C19 for get_route
C19_UnparseableRejectedByGetRoute ==
    /\ phase = "responded"
    /\ request.handler = "get_route"
    /\ ~Parseable(request.start) \/ ~Parseable(request.end)
    => response = Raised("ValidationError", <<>>)

----------------------------------------------------------------------------
(* C20: a build whose input yields zero vertices fails instead of handing  *)
(* out a usable graph; snapping a point against a graph with no vertices   *)
(* raises instead of returning a point; and no route is served from an     *)
(* empty graph.                                                            *)

\* the layers the builder named in request reads hold no segment
NoVertices ==
    (IF request.builder = "build_from_footpaths" THEN <<>>
     ELSE SegmentsOfLayer(roads_gdf, 1, "road"))
    \o (IF request.builder \in {"build_from_footpaths", "build_combined"}
        THEN SegmentsOfLayer(footpaths_gdf, 1, "footpath") ELSE <<>>)
    = <<>>

C20_EmptyGraphNeverServed ==
    /\ phase = "built" /\ NoVertices => IsRaised(response)
    /\ phase = "snapped" /\ driving_graph_builder.nodes = <<>> => IsRaised(response)
    /\ phase = "routed" /\ response.outcome = "Route" =>
           driving_graph_builder.nodes # <<>>

\* the same for the three builders of GraphBuilder alone
C20_BuilderEmptyGraphNeverServed ==
    phase # "loaded" /\ request.builder # "main" => C20_EmptyGraphNeverServed

----------------------------------------------------------------------------
(* C23: in the walking no-path fallback an end whose snapped vertex lies   *)
(* in the cached largest component keeps it, an end whose snapped vertex   *)
(* lies outside is replaced by the component's vertex nearest to the       *)
(* query coordinate, and the single retry runs between these two vertices. *)

\* the call went through the largest-component fallback
Retried == \E i \in DOMAIN response.steps : response.steps[i].step = "retry"

\* the retry searched: the search recorded right after the retry step
RetrySearched ==
    \E i \in DOMAIN response.steps :
        /\ response.steps[i].step = "retry"
        /\ i < Len(response.steps)
        /\ response.steps[i + 1] = Search("walking")

C23_RetryBetweenResnappedEnds ==
    Served /\ Retried =>
        /\ request.mode = "walking"
        /\ walking_largest_component # None
        /\ LET start2 == Resnapped(StartVertex("walking"), request.start)
               end2 == Resnapped(EndVertex("walking"), request.end)
           IN  /\ start2 \in walking_largest_component.some
               /\ end2 \in walking_largest_component.some
               /\ RetrySearched <=> start2 # end2
               /\ RetrySearched =>
                      /\ CountSteps(response.steps, "search") = 2
                      /\ response.outcome = "Route"
                      /\ response.route[1] = start2
                      /\ response.route[Len(response.route)] = end2

\* one end kept, the other moved into the component, and the retry ran
C23_Witness ==
    /\ Served
    /\ Retried
    /\ RetrySearched
    /\ StartVertex("walking") \notin walking_largest_component.some
    /\ EndVertex("walking") \in walking_largest_component.some
    /\ response.route[1] = NearestVertex(walking_largest_component.some, request.start)
    /\ response.route[Len(response.route)] = EndVertex("walking")

----------------------------------------------------------------------------
(* C27: in walking mode, after a failed first search, the downgrade to the *)
(* driving graph is attempted only when the two ends re-snapped into the   *)
(* largest component coincide; whenever they are distinct the retry finds  *)
(* a path and a Route with mode "walking" is returned.                     *)

\* a walking call on the walking graph whose first search found no path
WalkingSearchFailed ==
    /\ Served
    /\ request.mode = "walking"
    /\ walking_graph_builder # None
    /\ StartVertex("walking") # EndVertex("walking")
    /\ ~Connected(GraphOf("walking"), StartVertex("walking"), EndVertex("walking"))

Downgraded == \E i \in DOMAIN response.steps : response.steps[i].step = "downgrade"

C27_DowngradeOnlyWhenEndsCoincide ==
    WalkingSearchFailed =>
        /\ walking_largest_component # None
        /\ LET start2 == Resnapped(StartVertex("walking"), request.start)
               end2 == Resnapped(EndVertex("walking"), request.end)
           IN  /\ Downgraded => start2 = end2
               /\ start2 # end2 =>
                      /\ response.outcome = "Route"
                      /\ response.mode = "walking"
                      /\ IsPathOf(GraphOf("walking"), response.route)

\* both ends re-snap to one vertex and the call went on to the driving graph
C27_Witness ==
    /\ WalkingSearchFailed
    /\ Downgraded
    /\ Resnapped(StartVertex("walking"), request.start)
           = Resnapped(EndVertex("walking"), request.end)

----------------------------------------------------------------------------
(* C28: build_combined never adds a self-loop: every Connection edge of    *)
(* the combined graph, whichever bridging pass added it, joins two         *)
(* distinct vertices.                                                      *)

\* the ends of the Connection edges of a graph, each edge as its vertex set
ConnectionEdges(graph) ==
    {key \in DOMAIN graph.edges : graph.edges[key].road_name = "Connection"}

C28_ConnectionJoinsDistinctVertices ==
    Built /\ walking_graph_builder # None =>
        \A key \in ConnectionEdges(walking_graph_builder.graph) : Cardinality(key) = 2

----------------------------------------------------------------------------
(* The wrapper of apply_rate_limit under concurrent requests.  Each        *)
(* request runs wrapper() in its own thread; the threads share the closure *)
(* of one decorated function: the dictionary _rate_limited_func and the    *)
(* lock _rate_limit_lock.  request holds the position and the locals of    *)
(* every thread, response the closure, driving_graph_builder the           *)
(* application's config.                                                   *)

MaxThreads == 3

Threads == 1..MaxThreads

\* the undecorated function, and the result of the k-th limiter.limit(...)(func)
Undecorated == [function |-> "func", application |-> 0]
RateLimited(k) == [function |-> "rate_limited", application |-> k]

\* with _rate_limit_lock entered by whoever comes, held or not
lock_ignored(closure) == TRUE

\* with _rate_limit_lock: the lock can be taken when no thread holds it
lock_free(closure) == ~closure._rate_limit_lock

\* the closure of decorator(func): an empty cache and a free lock; applied
\* counts the calls of limiter.limit(limit_string)(func)
decorator ==
    [_rate_limited_func |-> <<>>, _rate_limit_lock |-> FALSE, applied |-> 0]

NewThread == [pc |-> "wrapper", called |-> <<>>]

RateInit ==
    /\ phase = "requests"
    /\ roads_gdf = <<>>
    /\ footpaths_gdf = <<>>
    /\ driving_graph_builder \in {[LIMITER |-> TRUE], [LIMITER |-> FALSE]}
    /\ walking_graph_builder = None
    /\ walking_largest_component = None
    /\ request = [t \in Threads |-> NewThread]
    /\ response = decorator

RateStep(t, thread, closure) ==
    /\ request' = [request EXCEPT ![t] = thread]
    /\ response' = closure
    /\ UNCHANGED <<phase, roads_gdf, footpaths_gdf, driving_graph_builder,
                   walking_graph_builder, walking_largest_component>>

\* limiter = current_app.config.get('LIMITER'); if limiter:
ReadLimiter(t) ==
    /\ request[t].pc = "wrapper"
    /\ RateStep(t, [request[t] EXCEPT !.pc = IF driving_graph_builder.LIMITER
                                               THEN "acquire" ELSE "direct"],
                response)

\* with _rate_limit_lock:
AcquireLock(t) ==
    /\ request[t].pc = "acquire"
    /\ lock_free(response)
    /\ RateStep(t, [request[t] EXCEPT !.pc = "test"],
                [response EXCEPT !._rate_limit_lock = TRUE])

\* if 'func' not in _rate_limited_func:
TestCache(t) ==
    /\ request[t].pc = "test"
    /\ RateStep(t, [request[t] EXCEPT !.pc = IF "func" \in DOMAIN response._rate_limited_func
                                               THEN "release" ELSE "store"],
                response)

\* _rate_limited_func['func'] = limiter.limit(limit_string)(func)
StoreWrapped(t) ==
    /\ request[t].pc = "store"
    /\ RateStep(t, [request[t] EXCEPT !.pc = "release"],
                [response EXCEPT !._rate_limited_func = [func |-> RateLimited(response.applied + 1)],
                                 !.applied = response.applied + 1])

\* the end of the with block
ReleaseLock(t) ==
    /\ request[t].pc = "release"
    /\ RateStep(t, [request[t] EXCEPT !.pc = "cached"],
                [response EXCEPT !._rate_limit_lock = FALSE])

\* return _rate_limited_func['func'](*args, **kwargs)
CallCached(t) ==
    /\ request[t].pc = "cached"
    /\ RateStep(t, [pc |-> "returned", called |-> <<response._rate_limited_func.func>>],
                response)

\* return func(*args, **kwargs)
CallDirect(t) ==
    /\ request[t].pc = "direct"
    /\ RateStep(t, [pc |-> "returned", called |-> <<Undecorated>>], response)

RateNext ==
    \E t \in Threads :
        \/ ReadLimiter(t)
        \/ AcquireLock(t)
        \/ TestCache(t)
        \/ StoreWrapped(t)
        \/ ReleaseLock(t)
        \/ CallCached(t)
        \/ CallDirect(t)

RateSpec == RateInit /\ [][RateNext]_vars

(* C26: under any interleaving of concurrent first requests to a function  *)
(* decorated with apply_rate_limit, limiter.limit(limit_string)(func) is   *)
(* applied at most once and every request is served by that one cached     *)
(* wrapped function; with no limiter configured each request calls the     *)
(* undecorated function directly and nothing is cached.                    *)
C26_WrappedOnce ==
    /\ response.applied <= 1
    /\ \A t \in Threads :
           request[t].pc = "returned" =>
               IF driving_graph_builder.LIMITER
               THEN /\ request[t].called = <<RateLimited(1)>>
                    /\ response._rate_limited_func = [func |-> RateLimited(1)]
               ELSE request[t].called = <<Undecorated>>
    /\ ~driving_graph_builder.LIMITER =>
           response._rate_limited_func = <<>> /\ response.applied = 0

\* every thread entered the wrapper before the first one stored the wrapped
\* function, and all of them were served by it
C26_Witness ==
    /\ driving_graph_builder.LIMITER
    /\ \A t \in Threads : request[t].pc = "returned" /\ request[t].called = <<RateLimited(1)>>
    /\ response.applied = 1

----------------------------------------------------------------------------
(* The graph cache of load_or_build_graph for one cache key with two data  *)
(* files.  roads_gdf and footpaths_gdf hold the bytes of the two data      *)
(* files (None: the file cannot be read), driving_graph_builder the cache  *)
(* file and walking_graph_builder the hash file (None: the file does not   *)
(* exist), response what the last call returned.                           *)

\* the contents a data file takes
FileVersions == {"v1", "v2"}

md5(bytes) == [hexdigest |-> bytes]

\* get_file_hash: the digest of the file's bytes, None when it cannot be read
get_file_hash(file) == IF file = None THEN None ELSE md5(file.bytes)

\* the digest of the concatenated digests of the readable data files
RECURSIVE ConcatHashes(_)
ConcatHashes(data_files) ==
    IF data_files = <<>> THEN <<>>
    ELSE LET file_hash == get_file_hash(data_files[1])
         IN  (IF file_hash = None THEN <<>> ELSE <<file_hash.hexdigest>>)
             \o ConcatHashes(Tail(data_files))

current_hash_of(data_files) == md5(ConcatHashes(data_files))

\* builder_func(): the builder of the data as loaded, known by the digest of
\* the files it was built from
builder_func(data_files) == [built_from |-> current_hash_of(data_files)]

\* cache_file.exists() and hash_file.exists() and stored_hash == current_hash
cache_valid(cache_file, hash_file, current_hash) ==
    /\ cache_file # None
    /\ hash_file # None
    /\ hash_file.text = current_hash

\* the points at which saving the cache can fail, each leaving the two
\* files as the statements run so far left them
SaveFaults == {"none", "open_cache", "dump", "open_hash", "write_text"}

\* the cache file after the save: pickle.dump into a file opened with 'wb'
SavedCache(cache_file, graph_builder, fault) ==
    CASE fault = "open_cache" -> cache_file
      [] fault = "dump" -> [truncated |-> TRUE]
      [] OTHER -> [pickle |-> graph_builder]

\* the hash file after the save: hash_file.write_text(current_hash)
SavedHash(hash_file, current_hash, fault) ==
    CASE fault \in {"open_cache", "dump", "open_hash"} -> hash_file
      [] fault = "write_text" -> [text |-> [empty |-> TRUE]]
      [] OTHER -> [text |-> current_hash]

\* load_or_build_graph: what it returns and the two files it leaves
load_or_build_graph(data_files, cache_file, hash_file, secure, fault) ==
    LET current_hash == current_hash_of(data_files)
        loadable == /\ cache_valid(cache_file, hash_file, current_hash)
                    /\ secure
                    /\ "pickle" \in DOMAIN cache_file
    IN  IF loadable
        THEN [returned |-> cache_file.pickle, source |-> "cache",
              current_hash |-> current_hash,
              cache_file |-> cache_file, hash_file |-> hash_file]
        ELSE LET graph_builder == builder_func(data_files)
             IN  [returned |-> graph_builder, source |-> "builder_func",
                  current_hash |-> current_hash,
                  cache_file |-> SavedCache(cache_file, graph_builder, fault),
                  hash_file |-> SavedHash(hash_file, current_hash, fault)]

CacheInit ==
    /\ phase = "files"
    /\ roads_gdf \in {[bytes |-> v] : v \in FileVersions}
    /\ footpaths_gdf \in {[bytes |-> v] : v \in FileVersions} \cup {None}
    /\ driving_graph_builder = None
    /\ walking_graph_builder = None
    /\ walking_largest_component = None
    /\ request = NoRequest
    /\ response = NoResponse

\* a data file is replaced, removed or restored between two starts
ChangeDataFile ==
    /\ \E file \in {[bytes |-> v] : v \in FileVersions} \cup {None} :
           \/ roads_gdf' = file /\ roads_gdf' # roads_gdf /\ UNCHANGED footpaths_gdf
           \/ footpaths_gdf' = file /\ footpaths_gdf' # footpaths_gdf /\ UNCHANGED roads_gdf
    /\ UNCHANGED <<phase, driving_graph_builder, walking_graph_builder,
                   walking_largest_component, request, response>>

\* one start of the application: load_or_build_graph on the files as they are
LoadOrBuildGraph ==
    \E secure \in BOOLEAN, fault \in SaveFaults :
        LET result == load_or_build_graph(<<roads_gdf, footpaths_gdf>>,
                                          driving_graph_builder, walking_graph_builder,
                                          secure, fault)
        IN  /\ request' = [secure |-> secure, fault |-> fault]
            /\ response' = [returned |-> result.returned, source |-> result.source,
                            current_hash |-> result.current_hash]
            /\ driving_graph_builder' = result.cache_file
            /\ walking_graph_builder' = result.hash_file
            /\ UNCHANGED <<phase, roads_gdf, footpaths_gdf, walking_largest_component>>

CacheNext == ChangeDataFile \/ LoadOrBuildGraph

CacheSpec == CacheInit /\ [][CacheNext]_vars

(* C29: whenever load_or_build_graph returns a graph loaded from the       *)
(* cache, that graph was built from data files whose combined hash equals  *)
(* the current hash, after any sequence of data-file changes, builds and   *)
(* failures between the write of the cache file and of the hash file; in   *)
(* every other case builder_func is called and its result returned.        *)
C29_CachedGraphMatchesCurrentHash ==
    response # NoResponse =>
        /\ response.source = "cache" =>
               response.returned.built_from = response.current_hash
        /\ response.source # "cache" =>
               /\ response.source = "builder_func"
               /\ response.returned.built_from = response.current_hash

\* a graph is loaded from the cache and it is the graph of the current files
C29_CacheHit ==
    /\ response # NoResponse
    /\ response.source = "cache"
    /\ response.returned.built_from = response.current_hash

----------------------------------------------------------------------------
(* The signed bearing difference at the middle vertex of three consecutive *)
(* path vertices, as generate_turn_instructions computes it before calling *)
(* turn_direction.                                                         *)

\* the coordinates of the three vertices
CornerCoords == -1..1

CornerInit ==
    /\ phase = "called"
    /\ roads_gdf = <<>>
    /\ footpaths_gdf = <<>>
    /\ driving_graph_builder = None
    /\ walking_graph_builder = None
    /\ walking_largest_component = None
    /\ \E call \in {"generate_turn_instructions", "main.generate_turn_instructions"},
          a, b, c \in CornerCoords \X CornerCoords :
           /\ a # b
           /\ b # c
           /\ request = [call |-> call, path |-> <<a, b, c>>]
    /\ response = NoResponse

\* NavigationService.generate_turn_instructions: prev_bearing, next_bearing, diff
CornerDiff ==
    /\ phase = "called"
    /\ request.call = "generate_turn_instructions"
    /\ phase' = "returned"
    /\ response' = [diff |-> BearingDiff(calculate_bearing(request.path[1], request.path[2]),
                                         calculate_bearing(request.path[2], request.path[3]))]
    /\ UNCHANGED <<roads_gdf, footpaths_gdf, driving_graph_builder,
                   walking_graph_builder, walking_largest_component, request>>

\* generate_turn_instructions of main.py: prev_bearing, next_bearing, diff
MainCornerDiff ==
    /\ phase = "called"
    /\ request.call = "main.generate_turn_instructions"
    /\ phase' = "returned"
    /\ response' = [diff |-> BearingDiff(main_calculate_bearing(request.path[1], request.path[2]),
                                         main_calculate_bearing(request.path[2], request.path[3]))]
    /\ UNCHANGED <<roads_gdf, footpaths_gdf, driving_graph_builder,
                   walking_graph_builder, walking_largest_component, request>>

CornerNext == CornerDiff \/ MainCornerDiff

CornerSpec == CornerInit /\ [][CornerNext]_vars

(* C25: for every pair of incoming and outgoing bearings the signed        *)
(* difference handed to turn_direction lies in (-180, 180]; a reversal of  *)
(* direction is +180, never -180.                                          *)
C25_DiffInHalfOpenInterval ==
    phase = "returned" => -180 < response.diff /\ response.diff <= 180

\* a path that doubles back on itself
C25_Reversal ==
    /\ phase = "returned"
    /\ request.path[1] = request.path[3]
    /\ response.diff = -180

----------------------------------------------------------------------------
(* Narration over a graph whose edge weights are whole metres: a straight  *)
(* street that changes its name half way, and a side street.               *)

WholeMetreEdge(meters, road_name) ==
    [weight |-> 100 * meters, road_name |-> road_name, path_type |-> "road"]

WholeMetreGraph ==
    add_edge(add_edge(add_edge(EmptyGraph,
        <<0, 0>>, <<40, 0>>, WholeMetreEdge(40, "Main Road")),
        <<40, 0>>, <<80, 0>>, WholeMetreEdge(40, "East Road")),
        <<80, 0>>, <<80, 40>>, WholeMetreEdge(30, "Hill Road"))

QuoteInit ==
    /\ phase = "called"
    /\ roads_gdf = <<>>
    /\ footpaths_gdf = <<>>
    /\ driving_graph_builder = [graph |-> WholeMetreGraph]
    /\ walking_graph_builder = None
    /\ walking_largest_component = None
    /\ \E l \in 0..MaxPathLen :
           \E path \in [1..l -> Nodes(WholeMetreGraph)] :
               request = [call |-> "generate_turn_instructions", path |-> path]
    /\ response = NoResponse

\* NavigationService(graph).generate_turn_instructions(path)
QuoteNext == GenerateTurnInstructions

QuoteSpec == QuoteInit /\ [][QuoteNext]_vars

\* the metres quoted by the instructions, added up
RECURSIVE SumQuoted(_)
SumQuoted(instructions) ==
    IF instructions = <<>> THEN 0
    ELSE instructions[1].meters + SumQuoted(Tail(instructions))

(* C30: for every valid path with integer edge weights, the distances      *)
(* quoted in the instructions of generate_turn_instructions (the turn      *)
(* instructions and the arrival) add up to the returned total distance.    *)
C30_QuotedDistancesAddUp ==
    /\ Narrated
    /\ Len(request.path) >= 2
    /\ EdgesExist(driving_graph_builder.graph, request.path)
    => /\ response.raised = "no"
       /\ 100 * SumQuoted(response.instructions) = response.total_distance

\* a path with a turn whose quoted distances do add up
C30_AddsUpAcrossTurn ==
    /\ Narrated
    /\ request.path = <<<<40, 0>>, <<80, 0>>, <<80, 40>>>>
    /\ Len(response.instructions) = 2
    /\ 100 * SumQuoted(response.instructions) = response.total_distance

----------------------------------------------------------------------------
(* haversine_distance on pairs of points, and the weights it gives to the  *)
(* edges of a graph built from one road and one footpath.                  *)

\* the coordinates measured, in units of 1/111320 degree
DistanceCoords == {-40, 0, 25}

DistancePoints == DistanceCoords \X DistanceCoords

DistanceInit ==
    /\ phase = "called"
    /\ \E a, b, c \in DistancePoints :
           /\ roads_gdf = <<Row(LineString(<<a, b>>), [name |-> "Main Road"])>>
           /\ footpaths_gdf = <<Row(LineString(<<b, c>>), [name |-> "Link Path"])>>
    /\ driving_graph_builder = None
    /\ walking_graph_builder = None
    /\ walking_largest_component = None
    /\ request \in {[call |-> "haversine_distance"], [call |-> "build_combined"]}
    /\ response = NoResponse

\* haversine_distance between the ends of the road, both ways, and from an
\* end to itself
HaversineDistance ==
    /\ phase = "called"
    /\ request.call = "haversine_distance"
    /\ phase' = "returned"
    /\ LET a == roads_gdf[1].geometry.coords[1]
           b == roads_gdf[1].geometry.coords[2]
       IN  response' = [forth |-> haversine_distance(a[1], a[2], b[1], b[2]),
                        back |-> haversine_distance(b[1], b[2], a[1], a[2]),
                        same |-> haversine_distance(a[1], a[2], a[1], a[2])]
    /\ UNCHANGED <<roads_gdf, footpaths_gdf, driving_graph_builder,
                   walking_graph_builder, walking_largest_component, request>>

\* GraphBuilder().build_combined(roads, footpaths)
WeighEdges ==
    /\ phase = "called"
    /\ request.call = "build_combined"
    /\ phase' = "returned"
    /\ response' = build_combined(NewGraphBuilder, roads_gdf, footpaths_gdf)
    /\ UNCHANGED <<roads_gdf, footpaths_gdf, driving_graph_builder,
                   walking_graph_builder, walking_largest_component, request>>

DistanceNext == HaversineDistance \/ WeighEdges

DistanceSpec == DistanceInit /\ [][DistanceNext]_vars

----------------------------------------------------------------------------
(* Several builds in sequence on one GraphBuilder.  driving_graph_builder  *)
(* is the builder object, roads_gdf and footpaths_gdf the arguments of the *)
(* last build, request what was called last and how many builds ran.       *)

MaxBuilds == 2

RebuildRoadFrames ==
    {<<>>, <<RoadCatalogue[1]>>, <<RoadCatalogue[2]>>}

RebuildFootpathFrames ==
    {<<>>, <<SurveyFootpathCatalogue[1]>>, <<SurveyFootpathCatalogue[2]>>}

RebuildInit ==
    /\ phase = "new"
    /\ roads_gdf = <<>>
    /\ footpaths_gdf = <<>>
    /\ driving_graph_builder = NewGraphBuilder
    /\ walking_graph_builder = None
    /\ walking_largest_component = None
    /\ request = [builds |-> 0, method |-> "__init__", returned |-> TRUE]
    /\ response = NoResponse

\* a build method called on the builder: it returns self, or an exception
\* leaves it before anything of self was assigned
Rebuilt(method, result, roads, footpaths) ==
    /\ phase' = "built"
    /\ roads_gdf' = roads
    /\ footpaths_gdf' = footpaths
    /\ request' = [builds |-> request.builds + 1, method |-> method,
                   returned |-> ~IsRaised(result)]
    /\ response' = result
    /\ driving_graph_builder' = IF IsRaised(result) THEN driving_graph_builder ELSE result
    /\ UNCHANGED <<walking_graph_builder, walking_largest_component>>

\* builder.build_from_roads(gdf)
RebuildFromRoads ==
    /\ request.builds < MaxBuilds
    /\ \E gdf \in RebuildRoadFrames :
           Rebuilt("build_from_roads", build_from_roads(driving_graph_builder, gdf), gdf, <<>>)

\* builder.build_from_footpaths(gdf)
RebuildFromFootpaths ==
    /\ request.builds < MaxBuilds
    /\ \E gdf \in RebuildFootpathFrames :
           Rebuilt("build_from_footpaths", build_from_footpaths(driving_graph_builder, gdf),
                   <<>>, gdf)

\* builder.build_combined(roads, footpaths)
RebuildCombined ==
    /\ request.builds < MaxBuilds
    /\ \E roads \in RebuildRoadFrames, footpaths \in RebuildFootpathFrames :
           Rebuilt("build_combined", build_combined(driving_graph_builder, roads, footpaths),
                   roads, footpaths)

\* builder.snap_to_graph(lon, lat) after a build that returned
SnapAfterBuild ==
    /\ phase = "built"
    /\ request.returned
    /\ \E coords \in QueryCoords :
           response' = [point |-> snap_to_graph(driving_graph_builder, coords[1], coords[2])]
    /\ phase' = "snapped"
    /\ UNCHANGED <<roads_gdf, footpaths_gdf, driving_graph_builder, walking_graph_builder,
                   walking_largest_component, request>>

RebuildNext ==
    \/ RebuildFromRoads
    \/ RebuildFromFootpaths
    \/ RebuildCombined
    \/ SnapAfterBuild

RebuildSpec == RebuildInit /\ [][RebuildNext]_vars

(* C24: after any build method of GraphBuilder returns, also when several  *)
(* are called in sequence on one builder, the points of the spatial index, *)
(* the builder's vertex list (free of duplicates) and the vertex set of    *)
(* the graph are equal, so snap_to_graph returns a vertex of the graph.    *)
C24_IndexListGraphAgree ==
    /\ request.builds > 0 /\ request.returned =>
           LET self == driving_graph_builder
           IN  /\ self.tree # None
               /\ self.tree.data = self.nodes
               /\ Cardinality(Range(self.nodes)) = Len(self.nodes)
               /\ Range(self.nodes) = Nodes(self.graph)
    /\ phase = "snapped" => response.point \in Nodes(driving_graph_builder.graph)

\* a footpath build after a road build, and a snap onto a vertex that only
\* the first build supplied
C24_Witness ==
    /\ phase = "snapped"
    /\ request.builds = 2
    /\ request.method = "build_from_footpaths"
    /\ footpaths_gdf # <<>>
    /\ response.point = PA
    /\ Cardinality(Nodes(driving_graph_builder.graph)) >= 5

----------------------------------------------------------------------------
(* A build running on a GraphBuilder while another thread snaps to it.     *)
(* The builder thread runs build_from_roads statement by statement on the  *)
(* shared object (driving_graph_builder); request holds its position and   *)
(* locals.  The reading thread runs snap_to_graph in its two attribute     *)
(* reads; phase is its position and response what it read and returned.    *)

IdleBuild(builds) ==
    [builds |-> builds, pc |-> "idle", segments |-> <<>>, unique_nodes |-> <<>>]

ConcurrentInit ==
    /\ phase = "idle"
    /\ roads_gdf = <<>>
    /\ footpaths_gdf = <<>>
    /\ driving_graph_builder = NewGraphBuilder
    /\ walking_graph_builder = None
    /\ walking_largest_component = None
    /\ request = IdleBuild(0)
    /\ response = NoResponse

BuilderStep(self, locals) ==
    /\ driving_graph_builder' = self
    /\ request' = locals
    /\ UNCHANGED <<phase, roads_gdf, footpaths_gdf, walking_graph_builder,
                   walking_largest_component, response>>

\* builder.build_from_roads(gdf) is called: the loops are ahead
CallBuildFromRoads ==
    /\ request.pc = "idle"
    /\ request.builds < MaxBuilds
    /\ \E gdf \in RebuildRoadFrames :
           /\ roads_gdf' = gdf
           /\ request' = [builds |-> request.builds + 1, pc |-> "loop",
                          segments |-> SegmentsOfLayer(gdf, 1, "road"),
                          unique_nodes |-> <<>>]
    /\ UNCHANGED <<phase, footpaths_gdf, driving_graph_builder, walking_graph_builder,
                   walking_largest_component, response>>

\* self.graph.add_edge(p1, p2, weight=length_m, road_name=road_name, ...)
BuildAddEdge ==
    /\ request.pc = "loop"
    /\ request.segments # <<>>
    /\ LET segment == request.segments[1]
       IN  BuilderStep([driving_graph_builder EXCEPT
                            !.graph = add_edge(@, segment.p1, segment.p2, segment.attr)],
                       [request EXCEPT !.pc = "extend"])

\* self.nodes.extend([p1, p2])
BuildExtendNodes ==
    /\ request.pc = "extend"
    /\ LET segment == request.segments[1]
       IN  BuilderStep([driving_graph_builder EXCEPT
                            !.nodes = @ \o <<segment.p1, segment.p2>>],
                       [request EXCEPT !.pc = "loop", !.segments = Tail(@)])

\* unique_nodes = list(set(self.nodes))
BuildUniqueNodes ==
    /\ request.pc = "loop"
    /\ request.segments = <<>>
    /\ BuilderStep(driving_graph_builder,
                   [request EXCEPT !.pc = "tree",
                                   !.unique_nodes = SeqOfSet(Range(driving_graph_builder.nodes))])

\* self.tree = cKDTree(unique_nodes); the constructor's exception ends the call
BuildAssignTree ==
    /\ request.pc = "tree"
    /\ LET tree == cKDTree(request.unique_nodes)
       IN  IF IsRaised(tree)
           THEN BuilderStep(driving_graph_builder, IdleBuild(request.builds))
           ELSE BuilderStep([driving_graph_builder EXCEPT !.tree = tree],
                            [request EXCEPT !.pc = "nodes"])

\* self.nodes = unique_nodes; return self
BuildAssignNodes ==
    /\ request.pc = "nodes"
    /\ BuilderStep([driving_graph_builder EXCEPT !.nodes = request.unique_nodes],
                   IdleBuild(request.builds))

\* what a query has read of the builder: the index, the vertex list it
\* indexed into, and the vertices of the graph it would route on
Observed(coords, tree_data, idx, nodes, graph_nodes, result) ==
    [coords |-> coords, tree |-> tree_data, idx |-> idx, nodes |-> nodes,
     graph_nodes |-> graph_nodes, result |-> result]

\* _, idx = self.tree.query((lon, lat)): AttributeError while tree is None
SnapQueryTree ==
    /\ phase \in {"idle", "snapped"}
    /\ \E coords \in QueryCoords :
           LET self == driving_graph_builder
           IN  IF self.tree = None
               THEN /\ phase' = "snapped"
                    /\ response' = Observed(coords, <<>>, 0, self.nodes, Nodes(self.graph),
                                            Raise("AttributeError"))
               ELSE /\ phase' = "queried"
                    /\ response' = Observed(coords, self.tree.data, query(self.tree, coords),
                                            <<>>, Nodes(self.graph), Raise("no"))
    /\ UNCHANGED <<roads_gdf, footpaths_gdf, driving_graph_builder, walking_graph_builder,
                   walking_largest_component, request>>

\* return self.nodes[idx]: IndexError when the list is shorter than the index
SnapIndexNodes ==
    /\ phase = "queried"
    /\ phase' = "snapped"
    /\ LET nodes == driving_graph_builder.nodes
       IN  response' = [response EXCEPT
                            !.nodes = nodes,
                            !.result = IF response.idx > Len(nodes) THEN Raise("IndexError")
                                       ELSE [point |-> nodes[response.idx]]]
    /\ UNCHANGED <<roads_gdf, footpaths_gdf, driving_graph_builder, walking_graph_builder,
                   walking_largest_component, request>>

ConcurrentNext ==
    \/ CallBuildFromRoads
    \/ BuildAddEdge
    \/ BuildExtendNodes
    \/ BuildUniqueNodes
    \/ BuildAssignTree
    \/ BuildAssignNodes
    \/ SnapQueryTree
    \/ SnapIndexNodes

ConcurrentSpec == ConcurrentInit /\ [][ConcurrentNext]_vars

(* C21: a snap or route query running concurrently with a build on the     *)
(* same GraphBuilder observes the complete old or the complete new graph,  *)
(* vertex list and index: it never combines an index built over one vertex *)
(* list with a different vertex list, and never sees a graph holding       *)
(* vertices that the index does not contain.                               *)
C21_QuerySeesConsistentSnapshot ==
    phase = "snapped" =>
        /\ response.tree = response.nodes
        /\ response.graph_nodes \subseteq Range(response.tree)

\* a snap between two builds, when no build is running, reads an index,
\* a list and a graph that agree
C21_QuietSnap ==
    /\ phase = "snapped"
    /\ request.pc = "idle"
    /\ request.builds = 1
    /\ response.tree = response.nodes
    /\ response.graph_nodes = Range(response.tree)
    /\ "point" \in DOMAIN response.result

\* the statement-by-statement build ends where build_from_roads ends
ConcurrentBuildAgrees ==
    request.pc = "idle" /\ request.builds = 1 /\ driving_graph_builder.tree # None =>
        driving_graph_builder = build_from_roads(NewGraphBuilder, roads_gdf)

====
